---------------------------- MODULE Spec2Model ----------------------------
(***************************************************************************)
(* A model of the Samsung TV controller (cwhit-io/samsung_2.0).            *)
(*                                                                         *)
(*   Spec        the service layer: TVService.execute_script and           *)
(*               TVService.concurrent_pair_tvs (app/services/tv_service.py)*)
(*               with one worker per requested device id.                  *)
(*   ScriptSpec  one run of a device script from the command line:         *)
(*               scripts/control_tv.py and scripts/power_status.py, with   *)
(*               the guarded worker thread of safe_control_with_timeout /  *)
(*               safe_call, scripts/get_tv_info.py, scripts/power_off.py   *)
(*               and scripts/power_on.py.                                  *)
(*   StoreSpec   tokens.json and two concurrent writers of it: save_token  *)
(*               (scripts/pair_tv.py) and persist_token_update             *)
(*               (scripts/get_tv_info.py).                                 *)
(*   QuerySpec   one call of a raw WebSocket query of get_tv_info.py.      *)
(*   RequestSpec one request body parsed by PairRequest or                 *)
(*               GenericScriptRequest (app/models/tv.py) and handed to     *)
(*               the service by its endpoint.                              *)
(*                                                                         *)
(* Device ids are the numbers 1..NumIds; their order stands for the        *)
(* lexicographic order of the id strings that list.sort(key=tv_id) uses.   *)
(***************************************************************************)
EXTENDS Integers, Sequences, FiniteSets, TLC

\* Bounds of the model.
NumIds == 3
MaxLen == 2
MaxFrames == 2
MaxRaw == 2

Ids == 1..NumIds

VARIABLES
    \* ---- service layer (Spec) ----
    op,            \* "execute" (execute_script) or "pair" (concurrent_pair_tvs)
    script_exists, \* script_path.exists() of execute_script
    tv_ids,        \* the requested id list
    concurrent,    \* the concurrent flag of execute_script
    config_ok,     \* config/config.json can be read and parsed right now
    registry,      \* the ids of config['tvs'] (empty when the file never was readable)
    tokens,        \* tokens.json: id -> token ("" when there is no record)
    pc,            \* position of the calling thread
    idx,           \* sequential mode: index of the id being processed
    wpc,           \* position of each per-device worker
    python_path,   \* run_single_tv's local variable python_path, per worker
    cause,         \* what each device's path did (recorded for the claims)
    future,        \* the worker's Future: a value, an exception, or pending
    results,       \* the list `results` being built by the calling thread
    spawned,       \* number of subprocess.run calls made for each id
    response,      \* what the call returned
    \* ---- one script run (ScriptSpec) ----
    s_script,      \* "control_tv", "power_status" or "get_tv_info"
    s_args_ok,     \* len(sys.argv) is what the script expects
    s_registered,  \* find_tv finds the id in config.json
    s_command,     \* control_tv: the key command argument
    s_record,      \* the tokens.json record of the device
    s_pc,          \* position of the main thread
    s_tpc,         \* position of the guarded worker thread
    s_hung_in,     \* the network call the worker thread is blocked in
    s_conn,        \* the SamsungTVWS session: "none", "open" or "closed"
    s_opens,       \* number of open() calls
    s_tres,        \* result[...] of the guard ("unset" when absent)
    s_texc,        \* exception['error'] of the guard
    s_info,        \* what rest_device_info returned
    s_guard,       \* what the guard returned to its caller
    s_pings,       \* number of check_ping calls
    s_ping,        \* what the network did with the ping ("none": not sent)
    s_stdout,      \* what the script printed
    s_rc,          \* the exit code of the script
    s_ack_new,     \* the handshake ack of the opened session carried a new token
    s_sess,        \* the SamsungTVWS objects of get_tv_info / power_on / power_off, in order of construction
    s_stage,       \* power_on / power_off: get_power_status runs "first" or to "verify"
    s_power,       \* power_on / power_off: what get_power_status returned ("None": None)
    s_log,         \* power_on / power_off: the power states main observed and the actions it took, in order;
                   \* get_tv_info: the REST probes of is_tv_online
    \* ---- the token store tokens.json and its writers (StoreSpec) ----
    f_ino,         \* the files (inodes) of the project directory and their content
    f_tokens,      \* the file the name tokens.json refers to
    f_tmp,         \* the file the name tokens.json.tmp refers to ("none": no such name)
    f_initial,     \* the records tokens.json held before the writers started
    w_kind,        \* writer -> "save_token" or "persist_token_update"
    w_id,          \* writer -> the device id it writes for
    w_val,         \* writer -> the token value it was called with
    w_pc,          \* writer -> position
    w_tokens,      \* writer -> its local dict `tokens`
    w_fd,          \* writer -> the file its open handle refers to
    w_run,         \* writer -> the pair_tv.py run around save_token: what the TV did, what main printed
    \* ---- one call of a raw WebSocket query (QuerySpec) ----
    q_fn,          \* "current_input" or "available_apps"
    q_token,       \* the token argument
    q_stored,      \* the token of the device's record in tokens.json
    q_ack,         \* the connect acknowledgement frame
    q_frames,      \* the frames the device sends in the listening window
    q_read,        \* number of frames the listening loop has received
    q_pc,          \* position
    q_ws,          \* the raw WebSocket: "none", "open" or "closed"
    q_apps_map,    \* available_apps: the dict apps_map
    q_result,      \* what the query returned
    q_emitted,     \* the candidate events were sent after the handshake
    q_cb,          \* the values on_new_token was called with, in order
    q_emit,        \* the candidate events ws.send was called with, and whether a send failed
    q_store,       \* tokens.json of the query's device "d" and of another device: before, now, writes
    \* ---- one request body parsed by a request model (RequestSpec) ----
    r_model,       \* "PairRequest" or "GenericScriptRequest"
    r_tv_ids,      \* the tv_ids of the request body
    r_pc,          \* "received", "rejected", "validated", "handed"
    r_out          \* request.tv_ids after validation; the list handed to TVService

svc_vars == <<op, script_exists, tv_ids, concurrent, config_ok, registry, tokens,
              pc, idx, wpc, python_path, cause, future, results, spawned, response>>

scr_vars == <<s_script, s_args_ok, s_registered, s_command, s_record, s_pc, s_tpc,
              s_hung_in, s_conn, s_opens, s_tres, s_texc, s_info, s_guard, s_pings,
              s_ping, s_stdout, s_rc, s_ack_new, s_sess, s_stage, s_power, s_log>>

store_vars == <<f_ino, f_tokens, f_tmp, f_initial, w_kind, w_id, w_val, w_pc,
                w_tokens, w_fd, w_run>>

qry_vars == <<q_fn, q_token, q_stored, q_ack, q_frames, q_read, q_pc, q_ws,
              q_apps_map, q_result, q_emitted, q_cb, q_emit, q_store>>

req_vars == <<r_model, r_tv_ids, r_pc, r_out>>

vars == <<svc_vars, scr_vars, store_vars, qry_vars, req_vars>>

(***************************************************************************)
(* Requested id lists: non-empty and duplicate-free, as the request models *)
(* hand them over (PairRequest.validate_tv_ids).                           *)
(***************************************************************************)
RECURSIVE SeqsOver(_, _)
SeqsOver(S, n) ==
    IF n = 0 THEN {<<>>}
    ELSE LET shorter == SeqsOver(S, n - 1)
         IN  shorter \cup {Append(s, x) : s \in {t \in shorter : Len(t) = n - 1}, x \in S}

Range(s) == {s[k] : k \in 1..Len(s)}

\* the id lists of a call: non-empty and duplicate-free, as PairRequest
\* guarantees (GenericScriptRequest does not, see RequestSpec)
IdLists == {s \in SeqsOver(Ids, MaxLen) : Len(s) > 0 /\ Cardinality(Range(s)) = Len(s)}

(***************************************************************************)
(* results.sort(key=lambda x: x["tv_id"]): a stable sort by tv_id, written *)
(* as the insertion of each element after the elements not greater.        *)
(***************************************************************************)
RECURSIVE InsertByTvId(_, _)
InsertByTvId(x, s) ==
    IF s = <<>> THEN <<x>>
    ELSE IF x.tv_id < Head(s).tv_id THEN <<x>> \o s
         ELSE <<Head(s)>> \o InsertByTvId(x, Tail(s))

RECURSIVE SortByTvIdFrom(_, _)
SortByTvIdFrom(s, acc) ==
    IF s = <<>> THEN acc ELSE SortByTvIdFrom(Tail(s), InsertByTvId(Head(s), acc))

SortUnsorted(s) == s

SortByTvId(s) == SortByTvIdFrom(s, <<>>)

CountWhere(s, P(_)) == Cardinality({k \in 1..Len(s) : P(s[k])})

(***************************************************************************)
(* The registry lookups of the service.                                    *)
(***************************************************************************)
\* get_available_tvs: raises when config.json cannot be read.
get_available_tvs == IF config_ok THEN [ok |-> TRUE, tvs |-> registry]
                                  ELSE [ok |-> FALSE, tvs |-> {}]

validate_always_exists(tv_id) == TRUE

\* validate_tv_exists(tv_id).exists: a failed read is reported as "not there".
validate_tv_exists(tv_id) ==
    IF get_available_tvs.ok THEN tv_id \in get_available_tvs.tvs ELSE FALSE

\* get_tv_by_id(tv_id) is not None
get_tv_by_id(tv_id) ==
    IF get_available_tvs.ok THEN tv_id \in get_available_tvs.tvs ELSE FALSE


(***************************************************************************)
(* Outcomes.  An execute_script Outcome is the dict of run_single_tv; a    *)
(* pairing Outcome is a PairResponse (which has no success field).         *)
(***************************************************************************)
Outcome(tv_id, status, output, success) ==
    [tv_id |-> tv_id, status |-> status, output |-> output, success |-> success]

PairResponse(tv_id, status, message) ==
    [tv_id |-> tv_id, status |-> status, message |-> message]

Value(v)   == [kind |-> "value", value |-> v]
Raised     == [kind |-> "exception"]
Pending    == [kind |-> "pending"]

\* What the environment can do with a started subprocess.
\*   execute_script: the script exits 0 or 1, runs over the 30 s, or
\*                   subprocess.run itself raises (OSError).
\*   pairing:        the TV accepts (issuing a token or not), refuses, or hangs,
\*                   or subprocess.run raises (the .venv interpreter is missing).
ExecEnv == {"exit0", "exit1", "hang", "spawn_error"}
PairEnv == {"accept_token", "accept_no_token", "refuse", "hang", "spawn_error"}
SubprocessEnv == IF op = "execute" THEN ExecEnv ELSE PairEnv

(***************************************************************************)
(* run_single_tv (tv_service.py 238-289).                                  *)
(***************************************************************************)
\* python_path is assigned at line 254 inside run_single_tv, which makes it a
\* local variable of run_single_tv: it is unbound when the function is entered
\* and the enclosing execute_script's python_path (line 229) is never read.
LocalAtEntry == "UNBOUND"

HandleException_reraise(tv_id) == Raised

\* except Exception (282-289)
HandleException(tv_id) == Value(Outcome(tv_id, "error", "Error executing script", FALSE))

\* except subprocess.TimeoutExpired (274-281)
HandleTimeout(tv_id) == Value(Outcome(tv_id, "timeout", "timed out", FALSE))

\* 244-250
NotFoundOutcome(tv_id) == Value(Outcome(tv_id, "not_found", "not found in configuration", FALSE))

\* 265-272: the Outcome of a finished subprocess
ExitOutcome(tv_id, returncode, stdout) ==
    Value(Outcome(tv_id, IF returncode = 0 THEN "success" ELSE "failed", stdout,
                  returncode = 0))

\* 252-289, after the id was found: [fut, cause, spawn] where spawn is the
\* number of subprocess.run calls made.
run_single_tv_body(tv_id, local_python_path, beh) ==
    IF local_python_path = "UNBOUND"
    THEN \* line 253 reads the unbound local: UnboundLocalError, an Exception
         [fut |-> HandleException(tv_id), cause |-> "UnboundLocalError", spawn |-> 0]
    ELSE CASE beh = "hang"        -> [fut |-> HandleTimeout(tv_id), cause |-> beh, spawn |-> 1]
           [] beh = "spawn_error" -> [fut |-> HandleException(tv_id), cause |-> beh, spawn |-> 1]
           [] beh = "exit0"       -> [fut |-> ExitOutcome(tv_id, 0, "stdout"), cause |-> beh, spawn |-> 1]
           [] OTHER               -> [fut |-> ExitOutcome(tv_id, 1, "stdout"), cause |-> beh, spawn |-> 1]

(***************************************************************************)
(* scripts/pair_tv.py as the subprocess of TVService.pair_tv.              *)
(***************************************************************************)
\* load_tv_config (20-28) and find_tv (53-58): an unreadable file is an empty list
pair_script_find_tv(tv_id) == config_ok /\ tv_id \in registry

\* pair_tv (61-91): TRUE when open and both send_key calls went through
pair_script_pair_tv(beh) == beh \in {"accept_token", "accept_no_token"}

\* 81-85: the token handed to save_token
pair_script_token(beh) == IF beh = "accept_token" THEN "TOKEN" ELSE "NO_TOKEN_REQUIRED"

\* main (94-113): [stdout, returncode, saved]
pair_script_main(tv_id, beh) ==
    IF ~pair_script_find_tv(tv_id)
    THEN [stdout |-> "id_not_found", returncode |-> 1, saved |-> ""]
    ELSE IF pair_script_pair_tv(beh)
         THEN [stdout |-> "pair_success", returncode |-> 0, saved |-> pair_script_token(beh)]
         ELSE [stdout |-> "pair_failed", returncode |-> 0, saved |-> ""]

(***************************************************************************)
(* TVService.pair_tv (tv_service.py 81-146).                               *)
(***************************************************************************)
PairTimeout_as_timeout(tv_id) == Value(PairResponse(tv_id, "timeout", "Pairing timed out"))

\* except subprocess.TimeoutExpired (133-139)
PairTimeout(tv_id) == Value(PairResponse(tv_id, "failed", "Pairing timed out"))

PairException_reraise(tv_id) == Raised

\* except Exception (140-146)
PairException(tv_id) == Value(PairResponse(tv_id, "failed", "Pairing failed"))

\* 86-92 and 159-164
PairNotFound(tv_id) == Value(PairResponse(tv_id, "not_found", "not found in configuration"))

\* 106-131: the PairResponse for the script's stdout
PairOutput(tv_id, stdout) ==
    CASE stdout = "pair_success" -> Value(PairResponse(tv_id, "success", "Successfully paired"))
      [] stdout = "id_not_found" -> Value(PairResponse(tv_id, "not_found", "not found"))
      [] OTHER                   -> Value(PairResponse(tv_id, "failed", "Failed to pair"))

\* [fut, cause, spawn, saved]
pair_tv(tv_id, beh) ==
    IF ~get_tv_by_id(tv_id)
    THEN [fut |-> PairNotFound(tv_id), cause |-> "not_found", spawn |-> 0, saved |-> ""]
    ELSE CASE beh = "hang" ->
                [fut |-> PairTimeout(tv_id), cause |-> beh, spawn |-> 1, saved |-> ""]
           [] beh = "spawn_error" ->
                [fut |-> PairException(tv_id), cause |-> beh, spawn |-> 1, saved |-> ""]
           [] OTHER ->
                LET out == pair_script_main(tv_id, beh)
                IN  [fut |-> PairOutput(tv_id, out.stdout), cause |-> beh, spawn |-> 1,
                     saved |-> out.saved]


(***************************************************************************)
(* The responses (tv_service.py 311-334 and 195-213).                      *)
(***************************************************************************)
IsSuccessFlag(r)  == r.success
IsSuccess(r)      == r.status = "success"
IsFailed_or_error(r) == r.status \in {"failed", "error"}
IsFailed(r)       == r.status = "failed"
IsNotFound(r)     == r.status = "not_found"
IsTimeoutOrError(r) == r.status \in {"timeout", "error"}

ExecuteResponse(res) ==
    [kind |-> "result",
     total_requested |-> Len(tv_ids),
     results |-> res,
     success_count |-> CountWhere(res, IsSuccessFlag),
     failed_count |-> CountWhere(res, IsFailed),
     not_found_count |-> CountWhere(res, IsNotFound),
     error_count |-> CountWhere(res, IsTimeoutOrError),
     concurrent |-> (concurrent /\ Len(tv_ids) > 1)]

ConcurrentPairResponse(res) ==
    [kind |-> "result",
     total_requested |-> Len(res),
     results |-> res,
     success_count |-> CountWhere(res, IsSuccess),
     failed_count |-> CountWhere(res, IsFailed),
     not_found_count |-> CountWhere(res, IsNotFound)]

\* 232-236: the script file is missing
ScriptNotFoundResponse == [kind |-> "error", results |-> <<>>]

NoResponse == [kind |-> "none"]
RaisedResponse == [kind |-> "exception"]

\* the sort and the summary that end both calls (308-334, 192-213)
FinalResponse(res) ==
    IF op = "execute" THEN ExecuteResponse(SortByTvId(res))
                      ELSE ConcurrentPairResponse(SortByTvId(res))

(***************************************************************************)
(* The service layer as a state machine.                                   *)
(***************************************************************************)
SvcInit ==
    /\ op \in {"execute", "pair"}
    /\ tv_ids \in IdLists
    /\ script_exists \in (IF op = "execute" THEN BOOLEAN ELSE {TRUE})
    /\ concurrent \in (IF op = "execute" THEN BOOLEAN ELSE {TRUE})
    /\ config_ok \in BOOLEAN
    /\ registry \in (IF config_ok THEN SUBSET Ids ELSE {{}})
    /\ tokens = [i \in Ids |-> ""]
    /\ pc = "call"
    /\ idx = 0
    /\ wpc = [i \in Ids |-> "idle"]
    /\ python_path = [i \in Ids |-> "UNBOUND"]
    /\ cause = [i \in Ids |-> "none"]
    /\ future = [i \in Ids |-> Pending]
    /\ results = <<>>
    /\ spawned = [i \in Ids |-> 0]
    /\ response = NoResponse

\* execute_script 232-236
ScriptNotFound ==
    /\ pc = "call" /\ op = "execute" /\ ~script_exists
    /\ pc' = "aborted"
    /\ response' = ScriptNotFoundResponse
    /\ UNCHANGED <<scr_vars, store_vars, qry_vars, req_vars, op, script_exists, tv_ids, concurrent, config_ok, registry, tokens,
                   idx, wpc, python_path, cause, future, results, spawned>>

UsesPool_always == TRUE

\* the condition of line 294; concurrent_pair_tvs always uses the pool (172)
UsesPool == op = "pair" \/ (concurrent /\ Len(tv_ids) > 1)

\* 297-298 and 172-174: one worker per id, all submitted before collecting
Submit ==
    /\ pc = "call" /\ script_exists /\ UsesPool
    /\ wpc' = [i \in Ids |-> IF i \in Range(tv_ids) THEN "validate" ELSE "idle"]
    /\ pc' = "collecting"
    /\ UNCHANGED <<scr_vars, store_vars, qry_vars, req_vars, op, script_exists, tv_ids, concurrent, config_ok, registry, tokens,
                   idx, python_path, cause, future, results, spawned, response>>

\* 303-305: the sequential loop calls run_single_tv for the first id
SeqStart ==
    /\ pc = "call" /\ script_exists /\ ~UsesPool
    /\ idx' = 1
    /\ wpc' = [wpc EXCEPT ![tv_ids[1]] = "validate"]
    /\ pc' = "sequential"
    /\ UNCHANGED <<scr_vars, store_vars, qry_vars, req_vars, op, script_exists, tv_ids, concurrent, config_ok, registry, tokens,
                   python_path, cause, future, results, spawned, response>>

\* run_single_tv 240-250 / pair_single_tv 156-164: the registry check
Validate(i) ==
    /\ wpc[i] = "validate"
    /\ python_path' = [python_path EXCEPT ![i] = LocalAtEntry]
    /\ IF validate_tv_exists(i)
       THEN /\ wpc' = [wpc EXCEPT ![i] = "body"]
            /\ UNCHANGED <<future, cause>>
       ELSE /\ wpc' = [wpc EXCEPT ![i] = "done"]
            /\ future' = [future EXCEPT ![i] =
                             IF op = "execute" THEN NotFoundOutcome(i) ELSE PairNotFound(i)]
            /\ cause' = [cause EXCEPT ![i] = "not_found"]
    /\ UNCHANGED <<scr_vars, store_vars, qry_vars, req_vars, op, script_exists, tv_ids, concurrent, config_ok, registry, tokens,
                   pc, idx, results, spawned, response>>

\* run_single_tv 252-289 / TVService.pair_tv 81-146, with the subprocess
Body(i) ==
    /\ wpc[i] = "body"
    /\ \E beh \in SubprocessEnv :
         LET r == IF op = "execute"
                  THEN run_single_tv_body(i, python_path[i], beh) @@ [saved |-> ""]
                  ELSE pair_tv(i, beh)
         IN  /\ future' = [future EXCEPT ![i] = r.fut]
             /\ cause' = [cause EXCEPT ![i] = r.cause]
             /\ spawned' = [spawned EXCEPT ![i] = @ + r.spawn]
             /\ tokens' = IF r.saved = "" THEN tokens ELSE [tokens EXCEPT ![i] = r.saved]
    /\ wpc' = [wpc EXCEPT ![i] = "done"]
    /\ UNCHANGED <<scr_vars, store_vars, qry_vars, req_vars, op, script_exists, tv_ids, concurrent, config_ok, registry,
                   pc, idx, python_path, results, response>>

\* future.result() in the collecting loop: execute_script has no handler
\* (300), concurrent_pair_tvs converts an exception to "failed" (179-190)
FutureResult(i) ==
    IF future[i].kind = "value" THEN future[i]
    ELSE IF op = "execute" THEN Raised
         ELSE Value(PairResponse(i, "failed", "Unexpected error"))

CollectInto_skip_not_found(res, item) ==
    IF item.status = "not_found" THEN res ELSE Append(res, item)

\* results.append(result) (301, 181, 190, 306)
CollectInto(res, item) == Append(res, item)

\* as_completed (299-301, 177-190): take one finished future; the last one
\* ends the loop, and the sort, the summary and the return follow
Collect(i) ==
    /\ pc = "collecting" /\ wpc[i] = "done"
    /\ wpc' = [wpc EXCEPT ![i] = "collected"]
    /\ IF FutureResult(i).kind = "exception"
       THEN /\ pc' = "raised"
            /\ response' = RaisedResponse
            /\ UNCHANGED results
       ELSE /\ results' = CollectInto(results, FutureResult(i).value)
            /\ IF \A j \in Range(tv_ids) : wpc'[j] = "collected"
               THEN pc' = "returned" /\ response' = FinalResponse(results')
               ELSE UNCHANGED <<pc, response>>
    /\ UNCHANGED <<scr_vars, store_vars, qry_vars, req_vars, op, script_exists, tv_ids, concurrent, config_ok, registry, tokens,
                   idx, python_path, cause, future, spawned>>

\* 304-306: run_single_tv returned; append, then the next id or the end
SeqNext ==
    /\ pc = "sequential" /\ wpc[tv_ids[idx]] = "done"
    /\ LET i == tv_ids[idx] IN
       /\ IF FutureResult(i).kind = "exception"
          THEN /\ pc' = "raised"
               /\ response' = RaisedResponse
               /\ wpc' = [wpc EXCEPT ![i] = "collected"]
               /\ UNCHANGED <<results, idx>>
          ELSE /\ results' = CollectInto(results, FutureResult(i).value)
               /\ IF idx = Len(tv_ids)
                  THEN /\ pc' = "returned"
                       /\ response' = FinalResponse(results')
                       /\ wpc' = [wpc EXCEPT ![i] = "collected"]
                       /\ UNCHANGED idx
                  ELSE /\ idx' = idx + 1
                       /\ wpc' = [wpc EXCEPT ![i] = "collected", ![tv_ids[idx + 1]] = "validate"]
                       /\ UNCHANGED <<pc, response>>
    /\ UNCHANGED <<scr_vars, store_vars, qry_vars, req_vars, op, script_exists, tv_ids, concurrent, config_ok, registry, tokens,
                   python_path, cause, future, spawned>>

\* the environment: config.json stops being readable while a call is in
\* progress (every lookup of the service reads the file again, 22-24)
ConfigLost ==
    /\ pc \in {"collecting", "sequential"} /\ config_ok
    /\ config_ok' = FALSE
    /\ UNCHANGED <<scr_vars, store_vars, qry_vars, req_vars, op, script_exists, tv_ids, concurrent, registry, tokens,
                   pc, idx, wpc, python_path, cause, future, results, spawned, response>>

SvcNext ==
    \/ ScriptNotFound
    \/ ConfigLost
    \/ Submit
    \/ SeqStart
    \/ \E i \in Ids : Validate(i)
    \/ \E i \in Ids : Body(i)
    \/ \E i \in Ids : Collect(i)
    \/ SeqNext



(***************************************************************************)
(* The device scripts, run from the command line:                          *)
(*     python control_tv.py <tv_id> <command>                              *)
(*     python power_status.py <tv_id>                                      *)
(* The main thread starts a daemon worker thread and joins it with a       *)
(* bound (safe_control_with_timeout, safe_call).  A network call of the    *)
(* worker succeeds, raises, or blocks beyond the bound; the join times out *)
(* exactly when the worker is blocked in a network call (local work and    *)
(* file reads are taken to be short against the 6 s / 8 s bounds).         *)
(* SamsungTVWS.close() neither raises nor blocks (Transport contract).     *)
(***************************************************************************)
TokenRecords == {"no_record", "no_token_key", "empty_token", "TOKEN", "NO_TOKEN_REQUIRED"}

\* tokens.get(id, {}).get('token'): "None" when the record or the key is absent
\* (an unreadable tokens.json loads as {}: "no_record")
token_of(record) ==
    CASE record \in {"no_record", "no_token_key"} -> "None"
      [] record = "empty_token"                   -> ""
      [] OTHER                                    -> record

\* Python truthiness of a str-or-None value
Truthy(x) == x \notin {"None", ""}

Commands == {"KEY_POWER", "KEY_SOURCE", "POWER", "no_token_available"}

\* control_tv.py 71-90
valid_keys ==
    {"KEY_POWER", "KEY_POWEROFF", "KEY_VOLUP", "KEY_VOLDOWN", "KEY_MUTE", "KEY_CHUP",
     "KEY_CHDOWN", "KEY_UP", "KEY_DOWN", "KEY_LEFT", "KEY_RIGHT", "KEY_ENTER",
     "KEY_RETURN", "KEY_MENU", "KEY_HOME", "KEY_GUIDE", "KEY_INFO", "KEY_0", "KEY_1",
     "KEY_2", "KEY_3", "KEY_4", "KEY_5", "KEY_6", "KEY_7", "KEY_8", "KEY_9",
     "KEY_NETFLIX", "KEY_AMAZON", "KEY_APPS", "KEY_PLAY", "KEY_PAUSE", "KEY_STOP",
     "KEY_REWIND", "KEY_FF"}

\* command.startswith("KEY_"), on the commands of the model
StartsWithKEY(command) == command \in valid_keys \cup {"KEY_SOURCE"}

\* control_tv.py 68-93
validate_key_command(command) == StartsWithKEY(command) \/ command \in valid_keys

\* Errors as the guards hand them on: the "timeout" string, or an exception
\* with the marker texts its message contains (the code tests `x in str(e)`).
NoError      == [kind |-> "none", contains |-> {}]
TimeoutError == [kind |-> "timeout", contains |-> {}]
Exc(markers) == [kind |-> "exception", contains |-> markers]

\* the marker texts inside a command string
CommandMarkers(command) == IF command = "no_token_available" THEN {"no_token_available"} ELSE {}

\* control_tv.py 104
NoTokenException == Exc({"no_token_available"})
\* control_tv.py 108: f"invalid_key_command: {command}"
InvalidCommandException(command) == Exc({"invalid_key_command"} \cup CommandMarkers(command))
\* an exception of the websocket library
TransportException == Exc({})

\* control_tv.py 44-66 (result.get('success', False))
safe_control_with_timeout(alive, texc, tres) ==
    IF alive THEN [value |-> "False", error |-> TimeoutError]
    ELSE IF texc.kind # "none" THEN [value |-> "False", error |-> texc]
    ELSE [value |-> IF tres = "unset" THEN "False" ELSE tres, error |-> NoError]

control_tv_status_folded(g) ==
    IF g.value # "True" THEN "connection_failed" ELSE "success"

\* control_tv.py 145-155: the status control_tv returns
control_tv_status(g) ==
    IF g.value # "True"
    THEN IF g.error.kind = "timeout" THEN "connection_timeout"
         ELSE IF "no_token_available" \in g.error.contains THEN "no_token"
         ELSE IF "invalid_key_command" \in g.error.contains THEN "invalid_command"
         ELSE "connection_failed"
    ELSE "success"

\* control_tv.py 176-187: what main prints
control_tv_print(success, status) ==
    IF success THEN "control_success"
    ELSE IF status = "no_token" THEN "no_token"
    ELSE IF status = "invalid_command" THEN "invalid_command"
    ELSE IF status = "connection_timeout" THEN "connection_timeout"
    ELSE "control_failed"

\* power_status.py 49-71 (result.get('value'))
safe_call(alive, texc, tres) ==
    IF alive THEN [value |-> "None", error |-> Exc({"Timeout"})]
    ELSE IF texc.kind # "none" THEN [value |-> "None", error |-> texc]
    ELSE [value |-> IF tres = "unset" THEN "None" ELSE tres, error |-> NoError]

\* what rest_device_info can return: no 'device' entry, or a device entry
\* whose PowerState is absent or one of these raw values
RawPowerStates == {"On", "on", "Standby", ""}
DeviceInfos == {[device |-> FALSE, power |-> "ABSENT"]}
               \cup {[device |-> TRUE, power |-> p] : p \in RawPowerStates \cup {"ABSENT"}}
NoInfo == [device |-> FALSE, power |-> "NOT_ASKED"]

LowerIdentity(x) == x

\* str.lower() on the strings of the model
Lower(x) ==
    CASE x = "On"      -> "on"
      [] x = "Standby" -> "standby"
      [] OTHER         -> x

\* power_status.py 81-84
extract_power_state(info) ==
    IF info.device
    THEN Lower(IF info.power = "ABSENT" THEN "unknown" ELSE info.power)
    ELSE "None"

\* power_status.py 86-87: result if result else None
get_websocket_power_state(g) == IF Truthy(g.value) THEN g.value ELSE "None"

\* power_status.py 89-100: returncode == 0, and False on any exception
check_ping(r) == r = "reply"

PingStandbyAlways(ok) == "standby"

\* power_status.py 124-130
PingResult(ok) == IF ok THEN "standby" ELSE "sleep"

NoGuard == [value |-> "pending", error |-> NoError]

ScrInit ==
    /\ s_script \in {"control_tv", "power_status", "get_tv_info", "power_off", "power_on"}
    /\ s_args_ok \in BOOLEAN
    /\ s_registered \in BOOLEAN
    /\ s_command \in (IF s_script = "control_tv" THEN Commands ELSE {"-"})
    /\ s_record \in TokenRecords
    /\ s_pc = "main"
    /\ s_tpc = "none"
    /\ s_hung_in = "none"
    /\ s_conn = "none"
    /\ s_opens = 0
    /\ s_tres = "unset"
    /\ s_texc = NoError
    /\ s_info = NoInfo
    /\ s_guard = NoGuard
    /\ s_pings = 0
    /\ s_ping = "none"
    /\ s_stdout = ""
    /\ s_rc = -1
    /\ s_ack_new = FALSE
    /\ s_sess = <<>>
    /\ s_stage = "none"
    /\ s_power = "None"
    /\ s_log = <<>>

\* control_tv.py main 157-174, up to the start of the guarded thread (55-58)
ControlMain ==
    /\ s_pc = "main" /\ s_script = "control_tv"
    /\ IF ~s_args_ok
       THEN s_stdout' = "control_failed" /\ s_rc' = 1 /\ s_pc' = "exited" /\ UNCHANGED s_tpc
       ELSE IF ~s_registered
       THEN s_stdout' = "id_not_found" /\ s_rc' = 1 /\ s_pc' = "exited" /\ UNCHANGED s_tpc
       ELSE s_pc' = "join" /\ s_tpc' = "start" /\ UNCHANGED <<s_stdout, s_rc>>
    /\ UNCHANGED <<svc_vars, store_vars, qry_vars, req_vars, s_log, s_sess, s_stage, s_power, s_ack_new, s_script, s_args_ok, s_registered, s_command,
                 s_record, s_hung_in, s_conn, s_opens, s_tres, s_texc,
                 s_info, s_guard, s_pings, s_ping>>

power_main_rejects_argv_only(args_ok, registered) == ~args_ok

\* power_status.py main 133-143: the two early exits that print unreachable
power_main_rejects(args_ok, registered) == ~args_ok \/ ~registered

\* power_status.py main 132-146 and check_power_status 112-119
PowerMain ==
    /\ s_pc = "main" /\ s_script = "power_status"
    /\ IF power_main_rejects(s_args_ok, s_registered)
       THEN s_stdout' = "unreachable" /\ s_rc' = 1 /\ s_pc' = "exited" /\ UNCHANGED s_tpc
       ELSE IF Truthy(token_of(s_record))
       THEN s_pc' = "join" /\ s_tpc' = "open" /\ UNCHANGED <<s_stdout, s_rc>>
       ELSE s_pc' = "ping" /\ UNCHANGED <<s_tpc, s_stdout, s_rc>>
    /\ UNCHANGED <<svc_vars, store_vars, qry_vars, req_vars, s_log, s_sess, s_stage, s_power, s_ack_new, s_script, s_args_ok, s_registered, s_command,
                 s_record, s_hung_in, s_conn, s_opens, s_tres, s_texc,
                 s_info, s_guard, s_pings, s_ping>>

execute_control_checks_command_first(token, command) ==
    IF ~validate_key_command(command) THEN InvalidCommandException(command)
    ELSE IF ~Truthy(token) THEN NoTokenException
    ELSE NoError

\* execute_control 99-108: the exception raised before the session object is
\* created (NoError: none); the token is looked at first, the command second
execute_control_checks(token, command) ==
    IF ~Truthy(token) THEN NoTokenException
    ELSE IF ~validate_key_command(command) THEN InvalidCommandException(command)
    ELSE NoError

\* execute_control 98-117: the token and the command are checked before any
\* network call
ExecuteControl ==
    /\ s_pc = "join" /\ s_tpc = "start"
    /\ LET e == execute_control_checks(token_of(s_record), s_command) IN
         IF e # NoError
         THEN s_texc' = e /\ s_tpc' = "done"
         ELSE s_tpc' = "open" /\ UNCHANGED s_texc
    /\ UNCHANGED <<svc_vars, store_vars, qry_vars, req_vars, s_log, s_sess, s_stage, s_power, s_ack_new, s_script, s_args_ok, s_registered, s_command,
                 s_record, s_pc, s_hung_in, s_conn, s_opens, s_tres,
                 s_info, s_guard, s_pings, s_ping, s_stdout, s_rc>>

\* SamsungTVWS.open(): control_tv.py 121 (inside try/except that closes and
\* re-raises), power_status.py 77 (no handler)
Open ==
    /\ s_pc = "join" /\ s_tpc = "open"
    /\ s_opens' = s_opens + 1
    /\ \E r \in {"ok", "raise", "hang"} :
         CASE r = "ok" ->
                /\ s_conn' = "open"
                /\ s_ack_new' \in BOOLEAN
                /\ s_tpc' = IF s_script = "control_tv" THEN "send" ELSE "query"
                /\ UNCHANGED <<s_texc, s_hung_in>>
           [] r = "raise" ->
                /\ s_texc' = TransportException
                /\ s_tpc' = "done"
                /\ UNCHANGED <<s_conn, s_hung_in, s_ack_new>>
           [] OTHER ->
                /\ s_tpc' = "hung" /\ s_hung_in' = "open"
                /\ UNCHANGED <<s_conn, s_texc, s_ack_new>>
    /\ UNCHANGED <<svc_vars, store_vars, qry_vars, req_vars, s_log, s_sess, s_stage, s_power, s_script, s_args_ok, s_registered, s_command,
                 s_record, s_pc, s_tres, s_info, s_guard, s_pings,
                 s_ping, s_stdout, s_rc>>

\* control_tv.py 124, with the handler 134-140
SendKey ==
    /\ s_pc = "join" /\ s_tpc = "send"
    /\ \E r \in {"ok", "raise", "hang"} :
         CASE r = "ok" ->
                /\ s_tpc' = "finish"
                /\ UNCHANGED <<s_conn, s_texc, s_hung_in>>
           [] r = "raise" ->
                /\ s_conn' = "closed"
                /\ s_texc' = TransportException
                /\ s_tpc' = "done"
                /\ UNCHANGED s_hung_in
           [] OTHER ->
                /\ s_tpc' = "hung" /\ s_hung_in' = "send"
                /\ UNCHANGED <<s_conn, s_texc>>
    /\ UNCHANGED <<svc_vars, store_vars, qry_vars, req_vars, s_log, s_sess, s_stage, s_power, s_ack_new, s_script, s_args_ok, s_registered, s_command,
                 s_record, s_pc, s_opens, s_tres, s_info, s_guard, s_pings,
                 s_ping, s_stdout, s_rc>>

\* control_tv.py 127-132: the settle delay, close, return True
ControlFinish ==
    /\ s_pc = "join" /\ s_tpc = "finish"
    /\ s_conn' = "closed"
    /\ s_tres' = "True"
    /\ s_tpc' = "done"
    /\ UNCHANGED <<svc_vars, store_vars, qry_vars, req_vars, s_log, s_sess, s_stage, s_power, s_ack_new, s_script, s_args_ok, s_registered, s_command,
                 s_record, s_pc, s_hung_in, s_opens, s_texc, s_info,
                 s_guard, s_pings, s_ping, s_stdout, s_rc>>

\* power_status.py 78: tv.rest_device_info()
RestDeviceInfo ==
    /\ s_pc = "join" /\ s_tpc = "query"
    /\ \E r \in {"ok", "raise", "hang"}, info \in DeviceInfos :
         CASE r = "raise" ->
                /\ s_texc' = TransportException
                /\ s_tpc' = "done"
                /\ UNCHANGED <<s_info, s_hung_in>>
           [] r = "hang" ->
                /\ s_tpc' = "hung" /\ s_hung_in' = "query"
                /\ UNCHANGED <<s_info, s_texc>>
           [] OTHER ->
                /\ s_info' = info
                /\ s_tpc' = "close"
                /\ UNCHANGED <<s_texc, s_hung_in>>
    /\ UNCHANGED <<svc_vars, store_vars, qry_vars, req_vars, s_log, s_sess, s_stage, s_power, s_ack_new, s_script, s_args_ok, s_registered, s_command,
                 s_record, s_pc, s_conn, s_opens, s_tres, s_guard, s_pings,
                 s_ping, s_stdout, s_rc>>

\* power_status.py 79-84: tv.close(), then the extraction
PowerFinish ==
    /\ s_pc = "join" /\ s_tpc = "close"
    /\ s_conn' = "closed"
    /\ s_tres' = extract_power_state(s_info)
    /\ s_tpc' = "done"
    /\ UNCHANGED <<svc_vars, store_vars, qry_vars, req_vars, s_log, s_sess, s_stage, s_power, s_ack_new, s_script, s_args_ok, s_registered, s_command,
                 s_record, s_pc, s_hung_in, s_opens, s_texc, s_info,
                 s_guard, s_pings, s_ping, s_stdout, s_rc>>

\* what follows the guard's return in either script: control_tv 143-155 and
\* main 174-187; get_websocket_power_state 86-87 and check_power_status 119-122
AfterGuard(g) ==
    /\ s_guard' = g
    /\ IF s_script = "control_tv"
       THEN /\ s_stdout' = control_tv_print(control_tv_status(g) = "success",
                                            control_tv_status(g))
            /\ s_rc' = 0
            /\ s_pc' = "exited"
       ELSE IF Truthy(get_websocket_power_state(g))
            THEN /\ s_stdout' = get_websocket_power_state(g)
                 /\ s_rc' = 0
                 /\ s_pc' = "exited"
            ELSE /\ s_pc' = "ping"
                 /\ UNCHANGED <<s_stdout, s_rc>>
    /\ UNCHANGED <<svc_vars, store_vars, qry_vars, req_vars, s_log, s_sess, s_stage, s_power, s_ack_new, s_script, s_args_ok, s_registered, s_command,
                 s_record, s_tpc, s_hung_in, s_conn, s_opens, s_tres,
                 s_texc, s_info, s_pings, s_ping>>

\* thread.join returns because the worker ended (58-66 / 63-71)
JoinReturn ==
    /\ s_pc = "join" /\ s_tpc = "done"
    /\ AfterGuard(IF s_script = "control_tv"
                  THEN safe_control_with_timeout(FALSE, s_texc, s_tres)
                  ELSE safe_call(FALSE, s_texc, s_tres))

\* thread.join returns on its bound with the worker still alive (60-61 / 65-66)
JoinTimeout ==
    /\ s_pc = "join" /\ s_tpc = "hung"
    /\ AfterGuard(IF s_script = "control_tv"
                  THEN safe_control_with_timeout(TRUE, s_texc, s_tres)
                  ELSE safe_call(TRUE, s_texc, s_tres))

\* check_ping and the end of check_power_status (124-130), main 147
Ping ==
    /\ s_pc = "ping"
    /\ \E r \in {"reply", "no_reply", "error"} :
         /\ s_ping' = r
         /\ s_stdout' = PingResult(check_ping(r))
    /\ s_pings' = s_pings + 1
    /\ s_rc' = 0
    /\ s_pc' = "exited"
    /\ UNCHANGED <<svc_vars, store_vars, qry_vars, req_vars, s_log, s_sess, s_stage, s_power, s_ack_new, s_script, s_args_ok, s_registered, s_command,
                 s_record, s_tpc, s_hung_in, s_conn, s_opens, s_tres,
                 s_texc, s_info, s_guard>>

(***************************************************************************)
(* scripts/get_tv_info.py <tv_id>.  The calls are made by the main thread  *)
(* (safe_websocket_call is defined but not used); a blocked call of the    *)
(* SamsungTVWS session ends in the exception of its timeout=8.             *)
(***************************************************************************)
\* get_comprehensive_tv_info passes on_new_token at line 79 and defines it at
\* line 91: the name is a local of the function, not yet bound at the call
OnNewTokenAtCall == "UNBOUND"

reuse_session(sess) ==
    IF sess = <<>> THEN <<[state |-> "new", opens |-> 0, reused |-> FALSE]>> ELSE sess

\* SamsungTVWS(...): a new session object, not yet connected; the local name
\* samsung_tv refers to the object constructed last
new_session(sess) == Append(sess, [state |-> "new", opens |-> 0, reused |-> FALSE])

\* samsung_tv.open(): connects unless it raises
open_session(sess, ok) ==
    [sess EXCEPT ![Len(sess)] =
        [state  |-> IF ok THEN "open" ELSE @.state,
         opens  |-> @.opens + 1,
         reused |-> @.reused \/ @.state = "closed"]]

\* a call on the session: shortcuts().power(), rest_device_info()
use_session(sess) ==
    [sess EXCEPT ![Len(sess)].reused = @ \/ sess[Len(sess)].state = "closed"]

\* samsung_tv.close(): nothing to do on an object that is not connected
close_session(sess) ==
    [sess EXCEPT ![Len(sess)].state = IF @ = "open" THEN "closed" ELSE @]

\* the handler 117-122: close the session, return f"websocket_error: {e}"
InfoHandler ==
    /\ s_conn' = IF s_conn = "open" THEN "closed" ELSE s_conn
    /\ s_stdout' = "websocket_error"
    /\ s_rc' = 0
    /\ s_pc' = "exited"

info_prechecks_probe_first(token, online) ==
    [result |-> IF ~online THEN "tv_offline"
                ELSE IF ~Truthy(token) THEN "no_token" ELSE "ok",
     probes |-> <<IF online THEN "probe_ok" ELSE "probe_failed">>]

\* get_comprehensive_tv_info 30-41: the stored token is checked first; only
\* with a token is the REST endpoint probed (is_tv_online 376-384: True for
\* an answer with status 200, False for an exception)
info_prechecks(token, online) ==
    IF ~Truthy(token) THEN [result |-> "no_token", probes |-> <<>>]
    ELSE IF ~online THEN [result |-> "tv_offline", probes |-> <<"probe_failed">>]
    ELSE [result |-> "ok", probes |-> <<"probe_ok">>]

\* main 502-516 and get_comprehensive_tv_info 31-42 (is_tv_online 376-384)
InfoMain ==
    /\ s_pc = "main" /\ s_script = "get_tv_info"
    /\ \E online \in BOOLEAN :
         IF ~s_args_ok
         THEN s_stdout' = "usage_error" /\ s_rc' = 1 /\ s_pc' = "exited"
              /\ UNCHANGED s_log
         ELSE IF ~s_registered
         THEN s_stdout' = "id_not_found" /\ s_rc' = 1 /\ s_pc' = "exited"
              /\ UNCHANGED s_log
         ELSE LET c == info_prechecks(token_of(s_record), online) IN
              /\ s_log' = s_log \o c.probes
              /\ IF c.result # "ok"
                 THEN s_stdout' = c.result /\ s_rc' = 0 /\ s_pc' = "exited"
                 ELSE s_pc' = "info_open" /\ UNCHANGED <<s_stdout, s_rc>>
    /\ s_sess' = IF s_pc' = "info_open" THEN new_session(s_sess) ELSE s_sess
    /\ UNCHANGED <<svc_vars, store_vars, qry_vars, req_vars, s_stage, s_power, s_ack_new, s_script, s_args_ok,
                 s_registered, s_command, s_record, s_tpc, s_hung_in, s_conn,
                 s_opens, s_tres, s_texc, s_info, s_guard, s_pings, s_ping>>

\* get_tv_info.py 52: samsung_tv.open()
InfoOpen ==
    /\ s_pc = "info_open"
    /\ s_opens' = s_opens + 1
    /\ \E r \in {"ok", "raise"} :
         IF r = "ok"
         THEN /\ s_conn' = "open"
              /\ s_ack_new' \in BOOLEAN
              /\ s_pc' = "info_rest"
              /\ s_sess' = open_session(s_sess, TRUE)
              /\ UNCHANGED <<s_stdout, s_rc>>
         ELSE /\ InfoHandler
              /\ s_sess' = close_session(open_session(s_sess, FALSE))
              /\ UNCHANGED s_ack_new
    /\ UNCHANGED <<svc_vars, store_vars, qry_vars, req_vars, s_log, s_stage, s_power, s_script, s_args_ok,
                 s_registered, s_command, s_record, s_tpc, s_hung_in,
                 s_tres, s_texc, s_info, s_guard, s_pings, s_ping>>

\* get_tv_info.py 64-70: rest_device_info inside its own try/except
InfoRest ==
    /\ s_pc = "info_rest"
    /\ \E r \in {"ok", "raise"}, info \in DeviceInfos :
         s_info' = IF r = "ok" THEN info ELSE s_info
    /\ s_pc' = "info_apps"
    /\ UNCHANGED s_sess
    /\ UNCHANGED <<svc_vars, store_vars, qry_vars, req_vars, s_log, s_stage, s_power, s_ack_new, s_script, s_args_ok,
                 s_registered, s_command, s_record, s_tpc, s_hung_in, s_conn,
                 s_opens, s_tres, s_texc, s_guard, s_pings, s_ping, s_stdout, s_rc>>

\* get_tv_info.py 74-81: the arguments of get_available_apps_raw_ws are
\* evaluated; reading the unbound local raises UnboundLocalError, which the
\* handler 117-122 turns into websocket_error
InfoApps ==
    /\ s_pc = "info_apps"
    /\ IF OnNewTokenAtCall = "UNBOUND"
       THEN InfoHandler /\ s_sess' = close_session(s_sess)
       ELSE s_pc' = "info_query" /\ UNCHANGED <<s_conn, s_stdout, s_rc, s_sess>>
    /\ UNCHANGED <<svc_vars, store_vars, qry_vars, req_vars, s_log, s_stage, s_power, s_ack_new, s_script, s_args_ok,
                 s_registered, s_command, s_record, s_tpc, s_hung_in,
                 s_opens, s_tres, s_texc, s_info, s_guard, s_pings, s_ping>>

(***************************************************************************)
(* scripts/power_off.py and scripts/power_on.py: read the power state      *)
(* (get_power_status), toggle power or send Wake-on-LAN through a second   *)
(* session, and read the power state again through a third.                *)
(***************************************************************************)
\* device_info["device"]["PowerState"] as the TV reports it
PwrStates == {"on", "On", "standby", "off", "Standby"}

\* power_off.py 92 / power_on.py 93: nothing to do (also the verdict 106 / 107, 133)
no_action_needed(script, power_state) ==
    IF script = "power_off" THEN power_state \in {"off", "standby"}
                            ELSE power_state \in {"on", "On"}

acts_on_any_state(script, power_state) == TRUE

\* power_off.py 94 / power_on.py 95, 117: the branches that open a session
acts_on(script, power_state) ==
    IF script = "power_off" THEN power_state \in {"on", "On"}
                            ELSE power_state \in {"standby", "off"}

\* the variables the power scripts never touch
pwr_untouched == <<s_script, s_args_ok, s_registered, s_command, s_record, s_tpc,
                   s_hung_in, s_conn, s_opens, s_tres, s_texc, s_info, s_guard,
                   s_pings, s_ping, s_ack_new>>

PwrExit(out, rc) == s_stdout' = out /\ s_rc' = rc /\ s_pc' = "exited"

\* main, up to the first get_power_status (power_off.py 74-87 / power_on.py 75-88)
PwrMain ==
    /\ s_pc = "main" /\ s_script \in {"power_off", "power_on"}
    /\ IF ~s_args_ok THEN PwrExit("usage_error", 1) /\ UNCHANGED s_stage
       ELSE IF ~s_registered THEN PwrExit("id_not_found", 1) /\ UNCHANGED s_stage
       ELSE s_pc' = "gps_start" /\ s_stage' = "first" /\ UNCHANGED <<s_stdout, s_rc>>
    /\ UNCHANGED <<svc_vars, store_vars, qry_vars, req_vars, pwr_untouched, s_sess, s_power, s_log>>

\* get_power_status (power_off.py 43-59): no token, or a new session object
GpsStart ==
    /\ s_pc = "gps_start"
    /\ IF ~Truthy(token_of(s_record))
       THEN s_power' = "None" /\ s_pc' = "gps_return" /\ UNCHANGED s_sess
       ELSE s_sess' = new_session(s_sess) /\ s_pc' = "gps_open" /\ UNCHANGED s_power
    /\ UNCHANGED <<svc_vars, store_vars, qry_vars, req_vars, pwr_untouched, s_stage, s_stdout, s_rc, s_log>>

\* get_power_status 62, and the handler 66-72 when open raises
GpsOpen ==
    /\ s_pc = "gps_open"
    /\ \E ok \in BOOLEAN :
         IF ok
         THEN /\ s_sess' = open_session(s_sess, TRUE)
              /\ s_pc' = "gps_rest" /\ UNCHANGED s_power
         ELSE /\ s_sess' = close_session(open_session(s_sess, FALSE))
              /\ s_power' = "None" /\ s_pc' = "gps_return"
    /\ UNCHANGED <<svc_vars, store_vars, qry_vars, req_vars, pwr_untouched, s_stage, s_stdout, s_rc, s_log>>

\* get_power_status 63-65: rest_device_info, close, the PowerState lookup; an
\* exception of the call or of the lookup goes to the handler 66-72
GpsRest ==
    /\ s_pc = "gps_rest"
    /\ \E r \in PwrStates \cup {"raise", "ABSENT"} :
         /\ s_sess' = IF r = "ABSENT" THEN close_session(close_session(s_sess))
                                      ELSE close_session(s_sess)
         /\ s_power' = IF r \in {"raise", "ABSENT"} THEN "None" ELSE r
    /\ s_pc' = "gps_return"
    /\ UNCHANGED <<svc_vars, store_vars, qry_vars, req_vars, pwr_untouched, s_stage, s_stdout, s_rc, s_log>>

\* main after the first get_power_status: power_off.py 88-98, 116-117 /
\* power_on.py 89-99, 117-123, 143-144
PwrDecide ==
    /\ s_pc = "gps_return" /\ s_stage = "first"
    /\ s_log' = Append(s_log, s_power)
    /\ IF s_power = "None"
       THEN PwrExit("status_error", 1) /\ UNCHANGED s_sess
       ELSE IF no_action_needed(s_script, s_power)
       THEN PwrExit("no_action", 0) /\ UNCHANGED s_sess
       ELSE IF acts_on(s_script, s_power)
       THEN /\ s_sess' = new_session(s_sess)
            /\ s_pc' = "tog_open" /\ UNCHANGED <<s_stdout, s_rc>>
       ELSE PwrExit("unknown_state", 0) /\ UNCHANGED s_sess
    /\ UNCHANGED <<svc_vars, store_vars, qry_vars, req_vars, pwr_untouched, s_stage, s_power>>

\* power_off.py 100 / power_on.py 101, 125, and the handler when open raises
TogOpen ==
    /\ s_pc = "tog_open"
    /\ \E ok \in BOOLEAN :
         IF ok
         THEN /\ s_sess' = open_session(s_sess, TRUE)
              /\ s_pc' = "tog_send" /\ UNCHANGED <<s_stdout, s_rc>>
         ELSE /\ s_sess' = close_session(open_session(s_sess, FALSE))
              /\ PwrExit("toggle_error", 0)
    /\ UNCHANGED <<svc_vars, store_vars, qry_vars, req_vars, pwr_untouched, s_stage, s_power, s_log>>

wake_action_swapped(script, power_state) ==
    IF script = "power_on" /\ power_state = "off" THEN "toggle" ELSE "wol"

\* what the branch does to the TV: shortcuts().power() (power_off.py 101,
\* power_on.py 102) or wakeonlan.send_magic_packet (power_on.py 129)
wake_action(script, power_state) ==
    IF script = "power_on" /\ power_state = "off" THEN "wol" ELSE "toggle"

\* power_off.py 101-105 / power_on.py 102-106, 126-132: the call on the
\* session and close; power_on's Wake-on-LAN is sent after the close, and an
\* exception of it reaches the handler, which closes once more.  A call that
\* raises may or may not have reached the TV.
TogSend ==
    /\ s_pc = "tog_send"
    /\ \E r \in {"ok", "raise", "wol_raises"}, sent \in BOOLEAN :
         LET act == wake_action(s_script, s_power) IN
         CASE r = "ok" ->
                /\ sent
                /\ s_sess' = close_session(use_session(s_sess))
                /\ s_log' = Append(s_log, act)
                /\ s_stage' = "verify" /\ s_pc' = "gps_start"
                /\ UNCHANGED <<s_stdout, s_rc>>
           [] r = "raise" ->
                \* power() raises, or rest_device_info / the wifiMac lookup
                /\ act = "wol" => ~sent
                /\ s_sess' = close_session(use_session(s_sess))
                /\ s_log' = IF sent THEN Append(s_log, act) ELSE s_log
                /\ PwrExit("toggle_error", 0) /\ UNCHANGED s_stage
           [] OTHER ->
                /\ act = "wol"
                /\ s_sess' = close_session(close_session(use_session(s_sess)))
                /\ s_log' = IF sent THEN Append(s_log, act) ELSE s_log
                /\ PwrExit("toggle_error", 0) /\ UNCHANGED s_stage
    /\ UNCHANGED <<svc_vars, store_vars, qry_vars, req_vars, pwr_untouched, s_power>>

\* power_off.py 105-109 / power_on.py 106-110, 132-136: the verdict
PwrVerify ==
    /\ s_pc = "gps_return" /\ s_stage = "verify"
    /\ s_log' = Append(s_log, s_power)
    /\ PwrExit(IF s_power # "None" /\ no_action_needed(s_script, s_power)
               THEN "success" ELSE "failure", 0)
    /\ UNCHANGED <<svc_vars, store_vars, qry_vars, req_vars, pwr_untouched, s_sess, s_stage, s_power>>

ScrNext ==
    \/ ControlMain
    \/ PowerMain
    \/ ExecuteControl
    \/ Open
    \/ SendKey
    \/ ControlFinish
    \/ RestDeviceInfo
    \/ PowerFinish
    \/ JoinReturn
    \/ JoinTimeout
    \/ Ping
    \/ InfoMain
    \/ InfoOpen
    \/ InfoRest
    \/ InfoApps
    \/ PwrMain
    \/ GpsStart
    \/ GpsOpen
    \/ GpsRest
    \/ PwrDecide
    \/ TogOpen
    \/ TogSend
    \/ PwrVerify

\* no script is running (the service specification)
ScrIdle ==
    /\ s_script = "none" /\ s_args_ok = TRUE /\ s_registered = FALSE
    /\ s_command = "-" /\ s_record = "no_record"
    /\ s_pc = "idle" /\ s_tpc = "none" /\ s_hung_in = "none" /\ s_conn = "none"
    /\ s_opens = 0 /\ s_tres = "unset" /\ s_texc = NoError /\ s_info = NoInfo
    /\ s_guard = NoGuard /\ s_pings = 0 /\ s_ping = "none"
    /\ s_stdout = "" /\ s_rc = -1 /\ s_ack_new = FALSE
    /\ s_sess = <<>> /\ s_stage = "none" /\ s_power = "None" /\ s_log = <<>>

\* no service call is in progress (the script specification)
SvcIdle ==
    /\ op = "none" /\ tv_ids = <<>> /\ script_exists = TRUE /\ concurrent = FALSE
    /\ config_ok = TRUE /\ registry = {} /\ tokens = [i \in Ids |-> ""]
    /\ pc = "idle" /\ idx = 0 /\ wpc = [i \in Ids |-> "idle"]
    /\ python_path = [i \in Ids |-> "UNBOUND"] /\ cause = [i \in Ids |-> "none"]
    /\ future = [i \in Ids |-> Pending] /\ results = <<>>
    /\ spawned = [i \in Ids |-> 0] /\ response = NoResponse

(***************************************************************************)
(* The token store tokens.json and two device paths writing it at the same *)
(* time, each for its own device id: save_token of scripts/pair_tv.py      *)
(* (one pair_tv.py process per device of concurrent_pair_tvs) and          *)
(* persist_token_update of scripts/get_tv_info.py.  Neither takes a lock.  *)
(* A file is an inode with a content; a name refers to an inode.           *)
(* open(path, 'w') truncates the inode the name refers to, or creates one; *)
(* a handle keeps referring to its inode after a rename; the content       *)
(* reaches the inode when the handle is closed at the end of the `with`.   *)
(* A writer process can be killed at any step.                             *)
(***************************************************************************)
Writers == {"A", "B"}

\* the inodes: the one tokens.json refers to at the start, and the one each
\* writer creates when it opens tokens.json.tmp while no such name exists
Inodes == {"T"} \cup Writers

NewToken(w) == IF w = "A" THEN "NEW_A" ELSE "NEW_B"

\* a dict keyed by device id; "ABSENT" where there is no record
Empty == [i \in Ids |-> "ABSENT"]

\* a file content: parseable JSON holding `data`, or truncated / garbled
Complete(data) == [ok |-> TRUE, data |-> data]
Truncated == [ok |-> FALSE, data |-> Empty]

TokensFile == f_ino[f_tokens]

\* load_tokens (pair_tv.py 31-38) and the read of persist_token_update
\* (get_tv_info.py 149-154): {} when the file cannot be parsed
load_tokens(content) == IF content.ok THEN content.data ELSE Empty

save_token_argument_raw(session_token) == session_token

\* pair_tv.py 81-85: the token pair_tv hands to save_token
save_token_argument(session_token) ==
    IF Truthy(session_token) THEN session_token ELSE "NO_TOKEN_REQUIRED"

\* get_tv_info.py 253-255 and 91-93: persist_token_update is called
on_new_token_persists(new_token, token) ==
    Truthy(new_token) /\ new_token # token

\* tokens[tv_id] = {...} (pair_tv.py 45-48), entry['token'] = new_token
\* (get_tv_info.py 157-159)
merge_record(tokens_dict, tv_id, token) == [tokens_dict EXCEPT ![tv_id] = token]

\* the bytes of `data` written at offset 0 of a file: the new content when
\* the file was empty or already held it, else the new bytes followed by
\* what is left of the old ones (the same content or a garbled file)
WriteOutcomes(old, data) ==
    IF old = Truncated \/ old = Complete(data)
    THEN {Complete(data)}
    ELSE {Complete(data), Truncated}

\* what a pairing attempt meets: open() (71) raises, the first or the second
\* send_key (76, 78) raises, close() (87) raises, or nothing does
PairAttempts == {"ok", "open_raises", "volup_raises", "voldown_raises", "close_raises"}

pair_tv_saves_on_connect(attempt) == attempt # "open_raises"

\* pair_tv 62-85: save_token is reached when open and both send_key returned
pair_tv_reaches_save(attempt) == attempt \in {"ok", "close_raises"}

\* pair_tv 87-91: True, or False from `except Exception`
pair_tv_returns(attempt) == attempt = "ok"

\* main 110-113
pair_main_prints(paired) == IF paired THEN "pair_success" ELSE "pair_failed"

NotRun == [attempt |-> "none", stdout |-> ""]

StoreInit ==
    /\ f_initial \in [Ids -> {"ABSENT", "OLD"}]
    /\ f_ino = [n \in Inodes |-> IF n = "T" THEN Complete(f_initial) ELSE Truncated]
    /\ f_tokens = "T"
    /\ f_tmp = "none"
    /\ w_kind \in [Writers -> {"save_token", "persist_token_update"}]
    /\ w_id \in {f \in [Writers -> Ids] : f["A"] < f["B"]}
    \* a rotation happens in a session opened with the stored token
    /\ \A w \in Writers : w_kind[w] = "persist_token_update" => f_initial[w_id[w]] = "OLD"
    /\ w_val = [w \in Writers |-> "None"]
    /\ w_pc = [w \in Writers |-> "start"]
    /\ w_tokens = [w \in Writers |-> Empty]
    /\ w_fd = [w \in Writers |-> "none"]
    /\ w_run = [w \in Writers |-> NotRun]

\* the call: pair_tv 62-85 calls save_token with the session's token or the
\* placeholder once open and the two key sends went through, and main
\* prints pair_failed otherwise; on_new_token (91-93, reached from 253-255) calls
\* persist_token_update only for a non-empty token that differs
WCall(w) ==
    /\ w_pc[w] = "start"
    /\ IF w_kind[w] = "save_token"
       THEN \E attempt \in PairAttempts, session_token \in {"None", "", NewToken(w)} :
                IF pair_tv_reaches_save(attempt)
                THEN /\ w_val' = [w_val EXCEPT ![w] = save_token_argument(session_token)]
                     /\ w_pc' = [w_pc EXCEPT ![w] = "read"]
                     /\ w_run' = [w_run EXCEPT ![w] = [attempt |-> attempt, stdout |-> ""]]
                ELSE /\ w_pc' = [w_pc EXCEPT ![w] = "skipped"]
                     /\ w_run' = [w_run EXCEPT ![w] =
                                    [attempt |-> attempt,
                                     stdout |-> pair_main_prints(pair_tv_returns(attempt))]]
                     /\ UNCHANGED w_val
       ELSE \E new_token \in {"None", "", "OLD", NewToken(w)} :
                /\ IF on_new_token_persists(new_token, f_initial[w_id[w]])
                   THEN /\ w_val' = [w_val EXCEPT ![w] = new_token]
                        /\ w_pc' = [w_pc EXCEPT ![w] = "read"]
                   ELSE /\ w_pc' = [w_pc EXCEPT ![w] = "skipped"]
                        /\ UNCHANGED w_val
                /\ UNCHANGED w_run
    /\ UNCHANGED <<svc_vars, scr_vars, qry_vars, req_vars, f_ino, f_tokens, f_tmp, f_initial,
                 w_kind, w_id, w_tokens, w_fd>>

\* save_token 44-48 / persist_token_update 149-159: read the whole store into
\* the local dict and set the device's record in it
WRead(w) ==
    /\ w_pc[w] = "read"
    /\ w_tokens' = [w_tokens EXCEPT
                      ![w] = merge_record(load_tokens(TokensFile), w_id[w], w_val[w])]
    /\ w_pc' = [w_pc EXCEPT ![w] = "open"]
    /\ UNCHANGED <<svc_vars, scr_vars, qry_vars, req_vars, w_run, f_ino, f_tokens, f_tmp, f_initial,
                 w_kind, w_id, w_val, w_fd>>

\* save_token 49: open(tokens_path, 'w') truncates tokens.json in place;
\* persist_token_update 162-164: open(tmp_path, 'w') on the one shared name
\* tokens.json.tmp
WOpen(w) ==
    /\ w_pc[w] = "open"
    /\ IF w_kind[w] = "save_token"
       THEN /\ f_ino' = [f_ino EXCEPT ![f_tokens] = Truncated]
            /\ w_fd' = [w_fd EXCEPT ![w] = f_tokens]
            /\ UNCHANGED f_tmp
       ELSE IF f_tmp = "none"
            THEN /\ f_tmp' = w
                 /\ f_ino' = [f_ino EXCEPT ![w] = Truncated]
                 /\ w_fd' = [w_fd EXCEPT ![w] = w]
            ELSE /\ f_ino' = [f_ino EXCEPT ![f_tmp] = Truncated]
                 /\ w_fd' = [w_fd EXCEPT ![w] = f_tmp]
                 /\ UNCHANGED f_tmp
    /\ w_pc' = [w_pc EXCEPT ![w] = "dump"]
    /\ UNCHANGED <<svc_vars, scr_vars, qry_vars, req_vars, w_run, f_tokens, f_initial,
                 w_kind, w_id, w_val, w_tokens>>

\* json.dump and the close of the `with` block: save_token 49-50,
\* persist_token_update 164-165 and its fallback 170-171; after save_token
\* pair_tv closes the session and main prints (pair_tv.py 87-91, 110-113)
WDump(w) ==
    /\ w_pc[w] \in {"dump", "fb_dump"}
    /\ \E c \in WriteOutcomes(f_ino[w_fd[w]], w_tokens[w]) :
         f_ino' = [f_ino EXCEPT ![w_fd[w]] = c]
    /\ w_fd' = [w_fd EXCEPT ![w] = "none"]
    /\ w_pc' = [w_pc EXCEPT
                  ![w] = IF w_kind[w] = "persist_token_update" /\ w_pc[w] = "dump"
                         THEN "replace" ELSE "done"]
    /\ w_run' = IF w_kind[w] = "save_token"
                THEN [w_run EXCEPT ![w].stdout =
                         pair_main_prints(pair_tv_returns(w_run[w].attempt))]
                ELSE w_run
    /\ UNCHANGED <<svc_vars, scr_vars, qry_vars, req_vars, f_tokens, f_tmp, f_initial,
                 w_kind, w_id, w_val, w_tokens>>

\* persist_token_update 167: Path(tmp_path).replace(tokens_path), which
\* raises when another writer has already renamed tokens.json.tmp away
WReplace(w) ==
    /\ w_pc[w] = "replace"
    /\ IF f_tmp # "none"
       THEN /\ f_tokens' = f_tmp
            /\ f_tmp' = "none"
            /\ w_pc' = [w_pc EXCEPT ![w] = "done"]
       ELSE /\ w_pc' = [w_pc EXCEPT ![w] = "fb_open"]
            /\ UNCHANGED <<f_tokens, f_tmp>>
    /\ UNCHANGED <<svc_vars, scr_vars, qry_vars, req_vars, w_run, f_ino, f_initial,
                 w_kind, w_id, w_val, w_tokens, w_fd>>

\* persist_token_update 168-170: the fallback opens tokens.json itself
WFallbackOpen(w) ==
    /\ w_pc[w] = "fb_open"
    /\ f_ino' = [f_ino EXCEPT ![f_tokens] = Truncated]
    /\ w_fd' = [w_fd EXCEPT ![w] = f_tokens]
    /\ w_pc' = [w_pc EXCEPT ![w] = "fb_dump"]
    /\ UNCHANGED <<svc_vars, scr_vars, qry_vars, req_vars, w_run, f_tokens, f_tmp, f_initial,
                 w_kind, w_id, w_val, w_tokens>>

\* the writer's process is killed (the 30 s subprocess timeout of the
\* service, a signal, a power cut)
WCrash(w) ==
    /\ w_pc[w] \in {"read", "open", "dump", "replace", "fb_open", "fb_dump"}
    /\ w_pc' = [w_pc EXCEPT ![w] = "crashed"]
    /\ UNCHANGED <<svc_vars, scr_vars, qry_vars, req_vars, w_run, f_ino, f_tokens, f_tmp, f_initial,
                 w_kind, w_id, w_val, w_tokens, w_fd>>

StoreNext ==
    \/ \E w \in Writers : WCall(w)
    \/ \E w \in Writers : WRead(w)
    \/ \E w \in Writers : WOpen(w)
    \/ \E w \in Writers : WDump(w)
    \/ \E w \in Writers : WReplace(w)
    \/ \E w \in Writers : WFallbackOpen(w)
    \/ \E w \in Writers : WCrash(w)

\* no writer of the token store is running
StoreIdle ==
    /\ f_ino = "idle" /\ f_tokens = "idle" /\ f_tmp = "idle" /\ f_initial = "idle"
    /\ w_kind = "idle" /\ w_id = "idle" /\ w_val = "idle" /\ w_pc = "idle"
    /\ w_tokens = "idle" /\ w_fd = "idle" /\ w_run = "idle"

(***************************************************************************)
(* One call of a raw WebSocket query of scripts/get_tv_info.py:            *)
(*     get_current_input_raw_ws   (foreground / running app)               *)
(*     get_available_apps_raw_ws  (installed apps)                         *)
(* with the on_new_token callback of get_comprehensive_tv_info.  An        *)
(* inbound frame is unparseable text or a JSON object whose "data" is an   *)
(* object (one app) or a list of apps; of the places the code looks at     *)
(* (data, params.data, foregroundApp, runningApp, apps, ...) the model     *)
(* keeps "data".                                                           *)
(***************************************************************************)
\* an app entry: appId and name ("None": key absent), running flag
HDMI1     == [appId |-> "org.tizen.tv.input-HDMI1", name |-> "HDMI1", running |-> TRUE]
Netflix   == [appId |-> "netflix", name |-> "Netflix", running |-> FALSE]
NetflixOn == [appId |-> "netflix", name |-> "None", running |-> TRUE]
Nameless  == [appId |-> "None", name |-> "None", running |-> FALSE]

Frames ==
    {[kind |-> "garbage", items |-> <<>>],
     [kind |-> "dict", items |-> <<HDMI1>>],
     [kind |-> "dict", items |-> <<Netflix>>],
     [kind |-> "dict", items |-> <<Nameless>>],
     [kind |-> "list", items |-> <<Netflix>>],
     [kind |-> "list", items |-> <<Netflix, HDMI1>>],
     [kind |-> "list", items |-> <<NetflixOn>>],
     [kind |-> "list", items |-> <<Nameless>>]}

\* the connect acknowledgement: nothing received in 2 s, unparseable text, or
\* an object with an event and, in data, a token (token or client_key or
\* auth_token; "None": no such key)
Acks ==
    {[kind |-> "timeout", event |-> "-", token |-> "None"],
     [kind |-> "garbage", event |-> "-", token |-> "None"]}
    \cup {[kind |-> "dict", event |-> e, token |-> t] :
              e \in {"ms.channel.connect", "ms.channel.timeOut"},
              t \in {"None", "", "OLD", "NEW"}}

NoInput == [kind |-> "none", value |-> "None"]

\* `a or b` on str-or-None values
Or(a, b) == IF Truthy(a) THEN a ELSE b

\* get_tv_info.py 315-318 / 329-331: the input suffix of an input app id,
\* else app:<name or id>
InputName_always_app(item) == [kind |-> "app", value |-> Or(item.name, item.appId)]

InputName(item) ==
    IF item.appId = "org.tizen.tv.input-HDMI1"
    THEN [kind |-> "input", value |-> "HDMI1"]
    ELSE [kind |-> "app", value |-> Or(item.name, item.appId)]

\* 320-331: the first item of a list that is running and has an id
RECURSIVE FirstRunning(_)
FirstRunning(items) ==
    IF items = <<>> THEN NoInput
    ELSE IF Head(items).running /\ Truthy(Head(items).appId)
         THEN InputName(Head(items))
         ELSE FirstRunning(Tail(items))

\* 290-331: what one frame yields for the foreground-app query
InputOf(frame) ==
    CASE frame.kind = "dict" ->
            IF Truthy(frame.items[1].appId) THEN InputName(frame.items[1]) ELSE NoInput
      [] frame.kind = "list" -> FirstRunning(frame.items)
      [] OTHER -> NoInput

\* apps_map[key] = {...} (484-490): a later entry replaces the one of its key
PutApp(map, item) ==
    IF ~Truthy(item.appId) /\ ~Truthy(item.name)
    THEN map
    ELSE LET key == Or(item.appId, item.name)
             rec == [key |-> key, appId |-> Or(item.appId, key),
                     name |-> Or(item.name, Or(item.appId, key))]
         IN  {r \in map : r.key # key} \cup {rec}

RECURSIVE PutApps(_, _)
PutApps(map, items) ==
    IF items = <<>> THEN map ELSE PutApps(PutApp(map, Head(items)), Tail(items))

\* 463-490: what one frame adds to apps_map (only list payloads count)
AppsOf(map, frame) == IF frame.kind = "list" THEN PutApps(map, frame.items) ELSE map

listen_never_stops(fn, frame) == FALSE

\* the listening loop returns out of the frame: 313-318 and 328-331 of
\* get_current_input_raw_ws; get_available_apps_raw_ws has no such return
listen_stops(fn, frame) == fn = "current_input" /\ InputOf(frame) # NoInput

NoResultYet == [input |-> [kind |-> "pending", value |-> "None"], apps |-> {}]

\* `return None` (250, 333, 335) / `return list(apps_map.values())`, `return []`
QueryResult(fn, input, map) ==
    [input |-> IF fn = "current_input" THEN input ELSE NoInput,
     apps  |-> IF fn = "available_apps" THEN map ELSE {}]

\* a record of tokens.json; present = FALSE: the device has none
NoRecord == [present |-> FALSE, token |-> "None", paired_at |-> "None"]
Record(token, paired_at) == [present |-> TRUE, token |-> token, paired_at |-> paired_at]

persist_token_update_new_record(file, tv_id, new_token) ==
    [file EXCEPT ![tv_id] = Record(new_token, "None")]

\* persist_token_update 157-159: entry = tokens.get(tv_id, {});
\* entry['token'] = new_token; tokens[tv_id] = entry
persist_token_update(file, tv_id, new_token) ==
    [file EXCEPT ![tv_id] = Record(new_token, @.paired_at)]

\* the candidate events of get_current_input_raw_ws (262-269) and of
\* get_available_apps_raw_ws (437-443)
events_to_try(fn) ==
    IF fn = "current_input"
    THEN <<"ed.apps.getForegroundApp", "ed.launcher.get_running_app",
           "ed.launcher.app.getRunningApp", "ed.getRunningApp",
           "ed.installedApp.getRunning", "ed.apps.getRunning">>
    ELSE <<"ed.installedApp.get", "ed.installedApp.getList", "ed.apps.getList",
           "ed.apps.getInstalled", "ed.launcher.get_app_list">>

RECURSIVE send_until_failure(_, _, _)
send_until_failure(events, fails, k) ==
    IF k > Len(events) THEN <<>>
    ELSE IF k \in fails THEN <<events[k]>>
    ELSE <<events[k]>> \o send_until_failure(events, fails, k + 1)

\* the loop 272-277 / 445-450: ws.send for each event from the k-th on; an
\* exception of one send is swallowed (`continue`).  `fails`: the positions
\* whose send raises
RECURSIVE send_events(_, _, _)
send_events(events, fails, k) ==
    IF k > Len(events) THEN <<>>
    ELSE <<events[k]>> \o send_events(events, fails, k + 1)

NothingSent == [sent |-> <<>>, failed |-> FALSE]

QryInit ==
    /\ q_fn \in {"current_input", "available_apps"}
    /\ q_token = "OLD"
    /\ q_stored = "OLD"
    /\ q_ack = [kind |-> "unread", event |-> "-", token |-> "None"]
    /\ q_frames \in SeqsOver(Frames, MaxFrames)
    /\ q_read = 0
    /\ q_pc = "start"
    /\ q_ws = "none"
    /\ q_apps_map = {}
    /\ q_result = NoResultYet
    /\ q_emitted = FALSE
    /\ q_cb = <<>>
    /\ q_emit = NothingSent
    /\ \E paired_at \in {"None", "T0"}, other \in {NoRecord, Record("OTHER", "T1")} :
         LET file == [d |-> Record("OLD", paired_at), other |-> other]
         IN  q_store = [initial |-> file, file |-> file, writes |-> 0]

\* a return, through the finally clause (336-341 / 495-500) that closes ws
QReturn(input, map) ==
    /\ q_result' = QueryResult(q_fn, input, map)
    /\ q_ws' = IF q_ws = "open" THEN "closed" ELSE q_ws
    /\ q_pc' = "returned"

\* 227-239 / 406-417: create_connection and the connect message; an
\* exception of either goes to `except Exception: return None` / `return []`
QConnect ==
    /\ q_pc = "start"
    /\ \E r \in {"ok", "connect_raises", "send_raises"} :
         CASE r = "ok" ->
                /\ q_ws' = "open" /\ q_pc' = "ack" /\ UNCHANGED q_result
           [] r = "connect_raises" ->
                QReturn(NoInput, {})
           [] OTHER ->
                /\ q_result' = QueryResult(q_fn, NoInput, {})
                /\ q_ws' = "closed"
                /\ q_pc' = "returned"
    /\ UNCHANGED <<svc_vars, scr_vars, store_vars, req_vars, q_fn, q_token, q_stored, q_ack,
                 q_frames, q_read, q_apps_map, q_emitted, q_cb, q_emit, q_store>>

\* 241-259 / 419-434: the acknowledgement; a non-empty token in it is handed
\* to on_new_token, which (91-93) persists it when it differs from the one
\* in use; only the foreground query gives up on ms.channel.timeOut
\* (249-250), before it looks at the token
QAck ==
    /\ q_pc = "ack"
    /\ \E ack \in Acks :
         /\ q_ack' = ack
         /\ IF q_fn = "current_input" /\ ack.kind = "dict"
               /\ ack.event = "ms.channel.timeOut"
            THEN QReturn(NoInput, {}) /\ UNCHANGED <<q_stored, q_cb, q_store>>
            ELSE /\ q_cb' = IF ack.kind = "dict" /\ Truthy(ack.token)
                            THEN Append(q_cb, ack.token) ELSE q_cb
                 /\ IF ack.kind = "dict" /\ on_new_token_persists(ack.token, q_token)
                    THEN /\ q_stored' = ack.token
                         /\ q_store' = [q_store EXCEPT
                               !.file = persist_token_update(@, "d", ack.token),
                               !.writes = @ + 1]
                    ELSE UNCHANGED <<q_stored, q_store>>
                 /\ q_pc' = "emit"
                 /\ UNCHANGED <<q_ws, q_result>>
    /\ UNCHANGED <<svc_vars, scr_vars, store_vars, req_vars, q_fn, q_token, q_frames, q_read,
                 q_apps_map, q_emitted, q_emit>>

\* 261-277 / 436-450: the candidate events are sent, one ws.send each
QEmit ==
    /\ q_pc = "emit"
    /\ \E fails \in SUBSET (1..Len(events_to_try(q_fn))) :
         q_emit' = [sent |-> send_events(events_to_try(q_fn), fails, 1),
                    failed |-> fails # {}]
    /\ q_emitted' = TRUE
    /\ q_pc' = "listen"
    /\ UNCHANGED <<svc_vars, scr_vars, store_vars, req_vars, q_fn, q_token, q_stored, q_ack,
                 q_frames, q_read, q_ws, q_apps_map, q_result, q_cb, q_store>>

\* one turn of the listening loop (282-331 / 455-490): the window is over,
\* recv times out or fails, or a frame arrives and is examined
QListen ==
    /\ q_pc = "listen"
    /\ \E ev \in {"window_over", "recv_fails", "frame"} :
         IF ev = "frame"
         THEN /\ q_read < Len(q_frames)
              /\ q_read' = q_read + 1
              /\ LET frame == q_frames[q_read + 1] IN
                   IF listen_stops(q_fn, frame)
                   THEN QReturn(InputOf(frame), q_apps_map) /\ UNCHANGED q_apps_map
                   ELSE /\ q_apps_map' = IF q_fn = "available_apps"
                                         THEN AppsOf(q_apps_map, frame) ELSE q_apps_map
                        /\ UNCHANGED <<q_pc, q_ws, q_result>>
         ELSE /\ QReturn(NoInput, q_apps_map)
              /\ UNCHANGED <<q_read, q_apps_map>>
    /\ UNCHANGED <<svc_vars, scr_vars, store_vars, req_vars, q_fn, q_token, q_stored, q_ack,
                 q_frames, q_emitted, q_cb, q_emit, q_store>>

QryNext ==
    \/ QConnect
    \/ QAck
    \/ QEmit
    \/ QListen

\* no raw WebSocket query is running
QryIdle ==
    /\ q_fn = "none" /\ q_token = "" /\ q_stored = "" /\ q_ack = "idle"
    /\ q_frames = <<>> /\ q_read = 0 /\ q_pc = "idle" /\ q_ws = "none"
    /\ q_apps_map = "idle" /\ q_result = "idle" /\ q_emitted = FALSE
    /\ q_cb = <<>> /\ q_emit = "idle" /\ q_store = "idle"

(***************************************************************************)
(* One request body parsed by a request model of app/models/tv.py and      *)
(* handed to the service by its endpoint (app/api/endpoints/tv.py).  The   *)
(* body's tv_ids is a short list of raw ids followed by a number of        *)
(* distinct well-formed ids, so that lists at and above the size limit     *)
(* occur.                                                                  *)
(***************************************************************************)
\* models/tv.py 27 and 80: the largest number of ids of one request
IdCap == 20

RawIds == {"a", " a", "b", "", " "}

\* str.strip() on the strings of the model
strip(x) ==
    CASE x = " a" -> "a"
      [] x = " "  -> ""
      [] OTHER    -> x

\* n distinct well-formed ids
Filler(n) == [k \in 1..n |-> "tv" \o ToString(k)]

RequestBodies ==
    {raw \o Filler(n) : raw \in SeqsOver(RawIds, MaxRaw) \cup {<<>>},
                        n \in {0, IdCap - 1, IdCap}}

Rejected == [ok |-> FALSE, tv_ids |-> <<>>]
Accepted(ids) == [ok |-> TRUE, tv_ids |-> ids]

Cleaned(v) == [k \in 1..Len(v) |-> strip(v[k])]

NonBlank(x) == x # ""

\* PairRequest.validate_tv_ids (19-41)
PairRequest_validate_tv_ids(v) ==
    IF v = <<>> THEN Rejected
    ELSE IF Len(v) > IdCap THEN Rejected
    ELSE IF \E k \in 1..Len(v) : v[k] = "" \/ strip(v[k]) = "" THEN Rejected
    ELSE IF Len(Cleaned(v)) # Cardinality(Range(Cleaned(v))) THEN Rejected
    ELSE Accepted(Cleaned(v))

\* GenericScriptRequest.validate_tv_ids (74-82)
GenericScriptRequest_validate_tv_ids(v) ==
    IF v = <<>> THEN Rejected
    ELSE IF Len(v) > IdCap THEN Rejected
    ELSE Accepted(SelectSeq(Cleaned(v), NonBlank))

ReqInit ==
    /\ r_model \in {"PairRequest", "GenericScriptRequest"}
    /\ r_tv_ids \in RequestBodies
    /\ r_pc = "received"
    /\ r_out = <<>>

\* FastAPI builds the request model from the body; a ValueError of the
\* validator is answered with 422 and the endpoint is not called
ParseRequest ==
    /\ r_pc = "received"
    /\ LET res == IF r_model = "PairRequest"
                  THEN PairRequest_validate_tv_ids(r_tv_ids)
                  ELSE GenericScriptRequest_validate_tv_ids(r_tv_ids)
       IN  /\ r_pc' = IF res.ok THEN "validated" ELSE "rejected"
           /\ r_out' = res.tv_ids
    /\ UNCHANGED <<svc_vars, scr_vars, store_vars, qry_vars, r_model, r_tv_ids>>

\* endpoints/tv.py 46 (pair_tvs) and 90-95, 120-125 (execute): the endpoint
\* passes request.tv_ids to the service as it is
HandToService ==
    /\ r_pc = "validated"
    /\ r_pc' = "handed"
    /\ UNCHANGED <<svc_vars, scr_vars, store_vars, qry_vars, r_model, r_tv_ids, r_out>>

ReqNext ==
    \/ ParseRequest
    \/ HandToService

\* no request is being parsed
ReqIdle == r_model = "none" /\ r_tv_ids = <<>> /\ r_pc = "idle" /\ r_out = <<>>

\* a call of the service, no script run from the command line
Init == SvcInit /\ ScrIdle /\ StoreIdle /\ QryIdle /\ ReqIdle

Spec == Init /\ [][SvcNext]_vars

\* a script run from the command line, no service call
ScriptInit == ScrInit /\ SvcIdle /\ StoreIdle /\ QryIdle /\ ReqIdle

ScriptSpec == ScriptInit /\ [][ScrNext]_vars

\* two writers of the token store, no service call and no other script
StoreSpecInit == StoreInit /\ SvcIdle /\ ScrIdle /\ QryIdle /\ ReqIdle

StoreSpec == StoreSpecInit /\ [][StoreNext]_vars

\* one raw WebSocket query, called on its own
QuerySpecInit == QryInit /\ SvcIdle /\ ScrIdle /\ StoreIdle /\ ReqIdle

QuerySpec == QuerySpecInit /\ [][QryNext]_vars

\* one request body and its request model
RequestSpecInit == ReqInit /\ SvcIdle /\ ScrIdle /\ StoreIdle /\ QryIdle

RequestSpec == RequestSpecInit /\ [][ReqNext]_vars


(***************************************************************************)
(* Properties of the service layer (checked under Spec).                   *)
(***************************************************************************)
Returned == pc = "returned"

Requested == Range(tv_ids)

\* the positions of the returned list that carry id i
PositionsOf(i) == {k \in 1..Len(response.results) : response.results[k].tv_id = i}

\* the Outcome the returned list holds for id i
OutcomeOf(i) == response.results[CHOOSE k \in PositionsOf(i) : TRUE]

\* the ids of a set in ascending order
RECURSIVE Ascending(_)
Ascending(S) ==
    IF S = {} THEN <<>>
    ELSE LET m == CHOOSE x \in S : \A y \in S : x <= y
         IN  <<m>> \o Ascending(S \ {m})

\* the status each kind of device path is said to end in
ExecStatusOf(c) ==
    CASE c = "not_found"   -> "not_found"
      [] c = "exit0"       -> "success"
      [] c = "exit1"       -> "failed"
      [] c = "hang"        -> "timeout"
      [] OTHER             -> "error"

PairStatusOf(c) ==
    CASE c = "not_found"                          -> "not_found"
      [] c \in {"accept_token", "accept_no_token"} -> "success"
      [] OTHER                                    -> "failed"

StatusByOwnPath(i) ==
    OutcomeOf(i).status = IF op = "execute" THEN ExecStatusOf(cause[i]) ELSE PairStatusOf(cause[i])

Exceptions == {"UnboundLocalError", "spawn_error"}

\* C1: a call that reached its per-device paths never ends in an exception,
\* and the list it returns holds exactly one Outcome for every requested id
\* and none for any other id, in the pool and in the sequential loop, for
\* execute_script and for concurrent_pair_tvs.
C1_ExactlyOneOutcomePerId ==
    /\ pc # "raised"
    /\ Returned =>
         /\ \A i \in Requested : Cardinality(PositionsOf(i)) = 1
         /\ \A k \in 1..Len(response.results) : response.results[k].tv_id \in Requested
         /\ Len(response.results) = Len(tv_ids)

C1_Witness ==
    /\ Returned /\ op = "execute" /\ concurrent /\ Len(tv_ids) = 2
    /\ cause[tv_ids[1]] = "UnboundLocalError"
    /\ cause[tv_ids[2]] = "not_found"
    /\ Len(response.results) = 2

\* C2: the returned list is in ascending id order: its id sequence is the
\* ascending enumeration of the requested id set, whatever the input order
\* and the order in which the workers were collected.
C2_SortedById ==
    Returned =>
        [k \in 1..Len(response.results) |-> response.results[k].tv_id] = Ascending(Requested)

C2_Witness ==
    /\ Returned /\ Len(results) = 2
    /\ results[1].tv_id > results[2].tv_id
    /\ tv_ids[1] < tv_ids[2]
    /\ response.results[1].tv_id < response.results[2].tv_id

\* C3: for an id that is not in the registry no subprocess is ever started,
\* and its Outcome has status not_found (and success false in
\* execute_script), in run_single_tv and on the pairing path.
C3_AbsentIdNotFoundWithoutSubprocess ==
    \A i \in Requested :
        i \notin registry =>
            /\ spawned[i] = 0
            /\ wpc[i] \in {"done", "collected"} =>
                 /\ future[i].kind = "value"
                 /\ future[i].value.status = "not_found"
                 /\ op = "execute" => future[i].value.success = FALSE
            /\ Returned =>
                 /\ OutcomeOf(i).status = "not_found"
                 /\ op = "execute" => OutcomeOf(i).success = FALSE

C3_Witness ==
    /\ Returned /\ op = "pair" /\ config_ok
    /\ \E i, j \in Requested :
         /\ i \notin registry /\ OutcomeOf(i).status = "not_found" /\ spawned[i] = 0
         /\ j \in registry /\ spawned[j] = 1

\* C4 (as claimed): for a registered id execute_script runs the device script
\* once, and the Outcome is success for exit code 0, failed for a non-zero
\* exit code, and error only when starting the script failed.
C4_RegisteredIdRunsScript ==
    (Returned /\ op = "execute") =>
        \A i \in Requested :
            (config_ok /\ i \in registry) =>
                /\ spawned[i] = 1
                /\ cause[i] = "exit0" => OutcomeOf(i).status = "success"
                /\ cause[i] = "exit1" => OutcomeOf(i).status = "failed"
                /\ OutcomeOf(i).status = "error" => cause[i] = "spawn_error"

\* C5 (as claimed): an exception in one device's path never reaches the
\* caller, leaves every sibling's Outcome what the sibling's own path makes
\* it, and gives the faulting device status error.
C5_ExceptionGivesError ==
    /\ pc # "raised"
    /\ Returned =>
         \A i \in Requested :
             /\ StatusByOwnPath(i)
             /\ cause[i] \in Exceptions => OutcomeOf(i).status = "error"

\* C5 (amended): as above, but the faulting device's status is error in
\* execute_script and failed in concurrent_pair_tvs.
C5_ExceptionContained ==
    /\ pc # "raised"
    /\ Returned =>
         \A i \in Requested :
             /\ StatusByOwnPath(i)
             /\ cause[i] \in Exceptions =>
                  OutcomeOf(i).status = IF op = "execute" THEN "error" ELSE "failed"

C5_Witness ==
    /\ Returned /\ op = "pair"
    /\ \E i, j \in Requested :
         /\ cause[i] = "spawn_error" /\ OutcomeOf(i).status = "failed"
         /\ cause[j] = "accept_token" /\ OutcomeOf(j).status = "success"

\* C6 (as claimed): a device whose subprocess ran over its deadline gets
\* status timeout from both callers, and every sibling's Outcome is what the
\* sibling's own path makes it.
C6_TimeoutGivesTimeout ==
    Returned =>
        \A i \in Requested :
            cause[i] = "hang" =>
                /\ OutcomeOf(i).status = "timeout"
                /\ \A j \in Requested \ {i} : StatusByOwnPath(j)

\* C6 (amended): the pairing caller reports the timed-out device as failed;
\* status timeout comes only from run_single_tv's TimeoutExpired handler; the
\* siblings' Outcomes are what their own paths make them.
C6_TimeoutContained ==
    Returned =>
        \A i \in Requested :
            /\ cause[i] = "hang" =>
                 /\ OutcomeOf(i).status = IF op = "execute" THEN "timeout" ELSE "failed"
                 /\ \A j \in Requested \ {i} : StatusByOwnPath(j)
            /\ OutcomeOf(i).status = "timeout" => (op = "execute" /\ cause[i] = "hang")

C6_Witness ==
    /\ Returned /\ op = "pair"
    /\ \E i, j \in Requested :
         /\ cause[i] = "hang" /\ OutcomeOf(i).status = "failed"
         /\ cause[j] = "accept_no_token" /\ OutcomeOf(j).status = "success"


(***************************************************************************)
(* Properties of the device scripts (checked under ScriptSpec).            *)
(***************************************************************************)
Exited == s_pc = "exited"

\* a send-key run for a registered device
SendKeyRun == s_script = "control_tv" /\ s_args_ok /\ s_registered

\* a power-state run for a registered device
PowerRun == s_script = "power_status" /\ s_args_ok /\ s_registered

NoStoredToken == s_record \in {"no_record", "no_token_key", "empty_token"}

SendKeyFailures == {"connection_timeout", "control_failed", "no_token", "invalid_command"}

C8_NoTokenReported ==
    (SendKeyRun /\ NoStoredToken) =>
        /\ s_opens = 0 /\ s_conn = "none" /\ s_tpc # "hung"
        /\ s_stdout \in {"", "no_token"}
        /\ Exited => s_stdout = "no_token"

C8_Witness ==
    /\ Exited /\ SendKeyRun /\ s_record = "empty_token" /\ s_command = "POWER"
    /\ s_stdout = "no_token"

\* C9: in a power-state run with a token on record, once the device-info
\* query has returned PowerState "On" the reachability probe is never made
\* and the run prints "on".
C9_ProtocolOnWins ==
    (PowerRun /\ ~NoStoredToken /\ s_info = [device |-> TRUE, power |-> "On"]) =>
        /\ s_pings = 0 /\ s_pc # "ping"
        /\ Exited => s_stdout = "on"

C9_Witness ==
    /\ Exited /\ PowerRun /\ s_record = "TOKEN"
    /\ s_info = [device |-> TRUE, power |-> "On"]
    /\ s_stdout = "on" /\ s_pings = 0

\* the protocol query was unavailable: no token, open or the query raised, or
\* the guarded call timed out
QueryUnavailable == NoStoredToken \/ s_guard.error.kind = "exception"

\* C10: a power-state run whose protocol query was unavailable makes exactly
\* one reachability probe and prints standby when the probe was answered and
\* sleep when it was not; no run makes more than one probe.
C10_FallbackToProbe ==
    /\ s_pings <= 1
    /\ (Exited /\ PowerRun /\ QueryUnavailable) =>
         /\ s_pings = 1
         /\ s_stdout \in {"standby", "sleep"}
         /\ s_stdout = "standby" <=> s_ping = "reply"

C10_Witness ==
    /\ Exited /\ PowerRun /\ s_record = "TOKEN"
    /\ s_guard.error = Exc({"Timeout"})
    /\ s_hung_in = "query"
    /\ s_ping = "reply" /\ s_stdout = "standby" /\ s_pings = 1


\* The guarded query of power_status returned what get_power_state computed
\* from a device-info payload.
QueryReturned == PowerRun /\ s_guard # NoGuard /\ s_guard.error = NoError

\* C11: when rest_device_info succeeds with a payload whose device entry has
\* no PowerState, power_status goes on to the reachability probe and prints
\* standby or sleep.
C11_AbsentFieldFallsToProbe ==
    (Exited /\ QueryReturned /\ s_info.device /\ s_info.power = "ABSENT")
        => (s_pings = 1 /\ s_stdout \in {"standby", "sleep"})

\* C12: power_status for an id that is not in the registry prints unreachable
\* without opening a session and without sending a ping.
C12_AbsentIdUnreachableNoIO ==
    (s_script = "power_status" /\ s_args_ok /\ ~s_registered)
        => /\ s_opens = 0 /\ s_pings = 0 /\ s_conn = "none"
           /\ Exited => (s_stdout = "unreachable" /\ s_rc = 1)

C12_Witness ==
    /\ s_script = "power_status" /\ s_args_ok /\ ~s_registered
    /\ Exited /\ s_stdout = "unreachable" /\ s_record = "TOKEN"

\* C13: when the handshake acknowledgement of the session a script opened
\* carried a new token, the device's record in tokens.json holds the new
\* token once the script has ended.
C13_RotatedTokenStored ==
    (Exited /\ s_ack_new) => s_record = "NEW_TOKEN"

\* the guard gave its caller the timeout result
GuardTimedOut == s_guard.error \in {TimeoutError, Exc({"Timeout"})}

\* C18: when the guarded worker hangs beyond the bound, the guard's caller is
\* given the timeout result and the session the worker opened is closed by
\* then.
C18_TimeoutClosesSession ==
    (s_hung_in # "none" /\ s_guard # NoGuard)
        => (GuardTimedOut /\ s_conn # "open")

\* C19: a script that has opened a session and ends without its worker being
\* blocked has closed the session.
C19_CloseOnEveryExitPath ==
    (Exited /\ s_hung_in = "none" /\ s_conn # "none") => s_conn = "closed"


(***************************************************************************)
(* Claims about the token store (StoreSpec).                               *)
(***************************************************************************)
\* the writer has written and returned
Wrote(w) == w_pc[w] = "done"

\* the writer has returned, having written or having had nothing to write
Finished(w) == w_pc[w] \in {"done", "skipped"}

WrittenIds == {w_id[w] : w \in Writers}

\* C14: when two writers for two different device ids have both written,
\* tokens.json holds both new values, whatever the interleaving.
C14_NoLostUpdate ==
    (\A w \in Writers : Wrote(w))
        => (TokensFile.ok /\ \A w \in Writers : TokensFile.data[w_id[w]] = w_val[w])

\* C15: once the writers have returned, the record of every device that no
\* writer wrote for is in tokens.json as it was before.
C15_OtherRecordsKept ==
    (\A w \in Writers : Finished(w))
        => \A i \in Ids \ WrittenIds :
               TokensFile.ok /\ TokensFile.data[i] = f_initial[i]

\* C16: save_token and persist_token_update are only ever called with a
\* non-empty token, and no file of the store ever holds an empty or null
\* token in a record.
C16_OnlyNonEmptyTokensWritten ==
    /\ \A w \in Writers : w_pc[w] \notin {"start", "skipped"} => Truthy(w_val[w])
    /\ \A n \in Inodes, i \in Ids : f_ino[n].data[i] \notin {"", "None"}

C16_Witness ==
    \E w \in Writers :
        /\ w_kind[w] = "save_token" /\ Wrote(w)
        /\ f_initial[w_id[w]] = "OLD"
        /\ TokensFile.ok /\ TokensFile.data[w_id[w]] = "NO_TOKEN_REQUIRED"
        /\ \E v \in Writers : w_pc[v] = "skipped"

\* C17: when a writer is killed at any step while no other writer has
\* started, tokens.json holds the complete previous content or the
\* complete new content.
C17_WriteIsAtomic ==
    \A w \in Writers :
        (w_pc[w] = "crashed" /\ \A v \in Writers \ {w} : w_pc[v] = "start")
            => TokensFile \in {Complete(f_initial),
                               Complete(merge_record(f_initial, w_id[w], w_val[w]))}

(***************************************************************************)
(* Claims about the raw WebSocket queries (QuerySpec).                     *)
(***************************************************************************)
QReturned == q_pc = "returned"

\* the frames the listening loop received
FramesRead == SubSeq(q_frames, 1, q_read)

\* the frame yields a usable extraction for the running query
Usable(frame) ==
    IF q_fn = "current_input" THEN InputOf(frame) # NoInput
                              ELSE AppsOf({}, frame) # {}

UsableRead == {k \in 1..q_read : Usable(q_frames[k])}

RECURSIVE AppsOfAll(_, _)
AppsOfAll(map, frames) ==
    IF frames = <<>> THEN map ELSE AppsOfAll(AppsOf(map, Head(frames)), Tail(frames))

\* C20 (as claimed): in both queries the first frame with a usable
\* extraction is the last frame read and it determines the result.
C20_FirstUsableFrameWinsBoth ==
    (QReturned /\ UsableRead # {})
        => /\ UsableRead = {q_read}
           /\ q_result = QueryResult(q_fn, InputOf(q_frames[q_read]),
                                      AppsOf({}, q_frames[q_read]))

\* C20 (amended): the foreground-app query returns what the first usable
\* frame yields and reads no frame after it; the installed-app query reads
\* on until the window is over or recv fails and returns what all the
\* frames it read add up to.
C20_FirstUsableFrameWinsForInput ==
    QReturned =>
        IF q_fn = "current_input"
        THEN IF UsableRead # {}
             THEN UsableRead = {q_read} /\ q_result.input = InputOf(q_frames[q_read])
             ELSE q_result.input = NoInput
        ELSE q_result.apps = AppsOfAll({}, FramesRead)

C20_Witness ==
    /\ QReturned /\ q_fn = "current_input"
    /\ q_read = 1 /\ Len(q_frames) = 2
    /\ q_result.input = [kind |-> "input", value |-> "HDMI1"]
    /\ InputOf(q_frames[2]) = [kind |-> "app", value |-> "netflix"]

(***************************************************************************)
(* Further claims about the service layer (Spec).                          *)
(***************************************************************************)
\* C25: when a worker's registry check runs while config.json cannot be
\* read, the call is aborted: the check does not end in a per-device
\* Outcome.
C25_RegistryFailureAborts ==
    [][\A i \in Ids :
          (wpc[i] = "validate" /\ wpc'[i] # "validate" /\ ~config_ok)
              => future'[i].kind = "exception"]_vars

\* the parallel case of execute_script
Parallel == concurrent /\ Len(tv_ids) > 1

\* the workers that have been started and whose result is not yet collected
InProgress == {i \in Ids : wpc[i] \in {"validate", "body", "done"}}

Started == {i \in Ids : wpc[i] # "idle"}

\* C26: execute_script uses the pool exactly when concurrent is true and
\* there is more than one id, and then every worker is started before any
\* result is collected; otherwise at most one device operation is in
\* progress and the operations start in input order; the concurrent field
\* of the response is true exactly in the parallel case.
C26_ParallelExactlyWhenFlagAndMany ==
    op = "execute" =>
        /\ pc = "collecting" => (Parallel /\ Started = Requested)
        /\ pc = "sequential" =>
              /\ ~Parallel
              /\ Cardinality(InProgress) <= 1
              /\ Started = {tv_ids[k] : k \in 1..idx}
        /\ Returned => (response.concurrent <=> Parallel)

C26_Witness ==
    /\ op = "execute" /\ Returned /\ ~concurrent /\ Len(tv_ids) = 2
    /\ response.concurrent = FALSE /\ idx = 2

\* C28: execute_script for [a, b], a not registered and b registered (and
\* unpaired and unreachable, so that power_status prints sleep and exits 0),
\* returns the Outcomes of a and b in this order, a's with status not_found
\* and b's with the script's output, and the summary counts both.
C28_EndToEndPowerState ==
    (/\ op = "execute" /\ Returned /\ config_ok /\ Len(tv_ids) = 2
     /\ tv_ids[1] < tv_ids[2]
     /\ tv_ids[1] \notin registry /\ tv_ids[2] \in registry)
        => /\ Len(response.results) = 2
           /\ response.results[1] = Outcome(tv_ids[1], "not_found",
                                             "not found in configuration", FALSE)
           /\ response.results[2] = Outcome(tv_ids[2], "success", "stdout", TRUE)
           /\ response.not_found_count = 1 /\ response.success_count = 1

\* the number of status buckets of the summary that count Outcome r
BucketsOf(r) ==
    Cardinality({b \in {"success", "failed", "not_found", "error"} :
        CASE b = "success"   -> IF op = "execute" THEN IsSuccessFlag(r) ELSE IsSuccess(r)
          [] b = "failed"    -> IsFailed(r)
          [] b = "not_found" -> IsNotFound(r)
          [] OTHER           -> op = "execute" /\ IsTimeoutOrError(r)})

\* C30: in the summary every Outcome is counted in exactly one bucket, the
\* bucket counts add up to the number of Outcomes, total_requested is the
\* number of requested ids, and success is true exactly for status success.
C30_BucketsPartitionOutcomes ==
    Returned =>
        /\ \A k \in 1..Len(response.results) : BucketsOf(response.results[k]) = 1
        /\ response.success_count + response.failed_count + response.not_found_count
             + (IF op = "execute" THEN response.error_count ELSE 0)
             = Len(response.results)
        /\ response.total_requested = Len(tv_ids)
        /\ op = "execute" =>
              \A k \in 1..Len(response.results) :
                  response.results[k].success <=> response.results[k].status = "success"

C30_Witness ==
    \/ /\ Returned /\ op = "execute"
       /\ response.error_count = 1 /\ response.not_found_count = 1
    \/ /\ Returned /\ op = "pair"
       /\ response.success_count = 1 /\ response.failed_count = 1

(***************************************************************************)
(* Further claims about the device scripts (ScriptSpec).                   *)
(***************************************************************************)
\* an info run that got as far as an opened session
InfoSessionRun ==
    s_script = "get_tv_info" /\ s_args_ok /\ s_registered /\ s_conn = "closed"

\* C21: an info run whose session was opened and whose heuristic queries
\* match no frame still ends with the structured result (current_input
\* unknown), not with an error result.
C21_UnmatchedQueryStillStructured ==
    (Exited /\ InfoSessionRun) => s_stdout = "tv_info"

(***************************************************************************)
(* Further claims about the raw WebSocket queries (QuerySpec).             *)
(***************************************************************************)
\* the foreground-app query returned a label
InputReported == QReturned /\ q_fn = "current_input" /\ q_result.input # NoInput

\* the label the claim gives an entry: the input suffix of an input app id,
\* else app:<name>, or app:<id> when the entry has no name
LabelOf(item) ==
    IF item.appId = "org.tizen.tv.input-HDMI1"
    THEN [kind |-> "input", value |-> "HDMI1"]
    ELSE [kind |-> "app",
          value |-> IF item.name \in {"None", ""} THEN item.appId ELSE item.name]

\* C22: a label returned by the foreground-app query comes from an entry of
\* the last frame read that has an app id and, in a list payload, is flagged
\* running; an input app id is reported as its input suffix, any other entry
\* as app:<name>, or app:<id> without a name.
C22_ForegroundLabel ==
    InputReported =>
        LET frame == q_frames[q_read] IN
        \E k \in 1..Len(frame.items) :
            /\ frame.items[k].appId \notin {"None", ""}
            /\ frame.kind = "list" => frame.items[k].running
            /\ q_result.input = LabelOf(frame.items[k])

C22_Witness ==
    /\ InputReported
    /\ q_frames[q_read] = [kind |-> "list", items |-> <<Netflix, HDMI1>>]
    /\ q_result.input = [kind |-> "input", value |-> "HDMI1"]

\* the acknowledgement of the handshake was ms.channel.timeOut
AckTimeOut == q_ack.kind = "dict" /\ q_ack.event = "ms.channel.timeOut"

\* C23: in both queries, after an ms.channel.timeOut acknowledgement no
\* candidate event is sent and the query returns its not-available value.
C23_TimeOutAckEndsQuery ==
    (q_pc \in {"listen", "returned"} /\ AckTimeOut)
        => /\ ~q_emitted
           /\ QReturned => q_result = QueryResult(q_fn, NoInput, {})

\* the session objects that are connected
OpenSessions == {k \in 1..Len(s_sess) : s_sess[k].state = "open"}

\* C24: in an info query, a power-on and a power-off run at most one session
\* is open at any time, no session object is opened twice, and none is
\* opened or called after it was closed.
C24_OneSessionAtATime ==
    s_script \in {"get_tv_info", "power_on", "power_off"} =>
        /\ Cardinality(OpenSessions) <= 1
        /\ \A k \in 1..Len(s_sess) : s_sess[k].opens <= 1 /\ ~s_sess[k].reused

C24_Witness ==
    /\ s_script = "power_off" /\ Exited /\ s_stdout = "success"
    /\ Len(s_sess) = 3
    /\ \A k \in 1..3 : s_sess[k].state = "closed" /\ s_sess[k].opens = 1

(***************************************************************************)
(* Further claims about the token store (StoreSpec).                       *)
(***************************************************************************)
NoCrash == \A v \in Writers : w_pc[v] # "crashed"

\* C29: once a pairing has written its record and returned, and no process
\* was killed, tokens.json holds a non-empty token (the device's token or
\* NO_TOKEN_REQUIRED) in the record of the paired device.
C29_PairedRecordHoldsToken ==
    \A w \in Writers :
        (w_kind[w] = "save_token" /\ Wrote(w) /\ NoCrash)
            => /\ TokensFile.ok
               /\ TokensFile.data[w_id[w]] \in {"NO_TOKEN_REQUIRED", NewToken(w)}

(***************************************************************************)
(* Claims about the request models (RequestSpec).                          *)
(***************************************************************************)
Handed == r_pc = "handed"

\* C27: the id list a request model hands to the service is non-empty, has
\* at most IdCap ids and no duplicates, and each id is trimmed and
\* non-empty.
C27_HandedIdsWellFormed ==
    Handed =>
        /\ r_out # <<>>
        /\ Len(r_out) <= IdCap
        /\ Cardinality(Range(r_out)) = Len(r_out)
        /\ \A k \in 1..Len(r_out) : r_out[k] # "" /\ strip(r_out[k]) = r_out[k]

(***************************************************************************)
(* Further claims about control_tv.py (ScriptSpec).                        *)
(***************************************************************************)
\* the command is in the allow-list or starts with KEY_
Recognized(command) ==
    command \in valid_keys \/ command \in {"KEY_POWER", "KEY_SOURCE"}

\* C31: a send-key run with a stored token whose command is neither in the
\* allow-list nor starts with KEY_ opens no connection, sends no key and
\* prints invalid_command.
C31_UnrecognizedCommandRejected ==
    (SendKeyRun /\ ~NoStoredToken /\ ~Recognized(s_command)) =>
        /\ s_opens = 0 /\ s_conn = "none" /\ s_tpc \notin {"open", "send", "finish"}
        /\ Exited => s_stdout = "invalid_command"

\* C34: a send-key run checks the stored token first and the command second:
\* without a token it prints no_token whatever the command is, with a token
\* and an unrecognized command it ends in a rejection, and in neither case
\* is a session opened.
C34_TokenCheckedBeforeCommand ==
    (SendKeyRun /\ (NoStoredToken \/ ~Recognized(s_command))) =>
        /\ s_opens = 0 /\ s_conn = "none"
        /\ (Exited /\ NoStoredToken) => s_stdout = "no_token"
        /\ (Exited /\ ~NoStoredToken) => s_stdout \in {"invalid_command", "no_token"}

C34_Witness ==
    /\ Exited /\ SendKeyRun /\ s_record = "no_record" /\ s_command = "POWER"
    /\ s_stdout = "no_token" /\ s_opens = 0

(***************************************************************************)
(* A further claim about TVService.pair_tv (Spec).                         *)
(***************************************************************************)
\* trimmed outputs of the pairing script, and outputs it does not produce
PairOutputs == {"pair_success", "id_not_found", "pair_failed", "", "Traceback"}

PairStatuses == {"success", "failed", "not_found"}

\* a pairing worker has returned from TVService.pair_tv or from the registry
\* check in front of it
PairReturned(i) == op = "pair" /\ wpc[i] \in {"done", "collected"}

\* C40: TVService.pair_tv never raises and returns a PairResponse with status
\* success, failed or not_found: success exactly for the output pair_success,
\* not_found for an unregistered id or the output id_not_found, failed for
\* every other output, for a subprocess timeout and for an exception.
C40_PairTvAlwaysResponds ==
    /\ \A out \in PairOutputs :
          /\ PairOutput(1, out).kind = "value"
          /\ PairOutput(1, out).value.status =
                (CASE out = "pair_success" -> "success"
                   [] out = "id_not_found" -> "not_found"
                   [] OTHER -> "failed")
    /\ \A i \in Ids :
          PairReturned(i) =>
              /\ future[i].kind = "value"
              /\ future[i].value.status \in PairStatuses
              /\ future[i].value.tv_id = i
              /\ future[i].value.status = PairStatusOf(cause[i])

C40_Witness ==
    \E i, j \in Ids :
        /\ PairReturned(i) /\ cause[i] = "spawn_error" /\ future[i].value.status = "failed"
        /\ PairReturned(j) /\ cause[j] = "refuse" /\ future[j].value.status = "failed"

(***************************************************************************)
(* Claims about power_off.py and power_on.py (ScriptSpec).                 *)
(***************************************************************************)
\* the positions of the log at which main acted on the TV
ActionsTaken == {k \in 1..Len(s_log) : s_log[k] \in {"toggle", "wol"}}

\* C35: a power_off run sends the power toggle at most once, never a
\* Wake-on-LAN packet, and the toggle only right after its first power-state
\* query returned on or On; after off, standby, another state or no state
\* at all (None) it sends nothing.
C35_PowerOffTogglesOnlyWhenOn ==
    s_script = "power_off" =>
        /\ Cardinality(ActionsTaken) <= 1
        /\ \A k \in ActionsTaken :
              s_log[k] = "toggle" /\ k = 2 /\ s_log[1] \in {"on", "On"}

C35_Witness ==
    /\ s_script = "power_off" /\ Exited
    /\ s_log = <<"On", "toggle", "standby">> /\ s_stdout = "success"

\* C36: a power_on run takes at most one wake action, right after its first
\* power-state query: a power toggle only when the state was standby, a
\* Wake-on-LAN packet only when it was off, nothing for on, On, another
\* state or no state at all (None).
C36_PowerOnOneWakeAction ==
    s_script = "power_on" =>
        /\ Cardinality(ActionsTaken) <= 1
        /\ \A k \in ActionsTaken :
              /\ k = 2
              /\ s_log[k] = "toggle" => s_log[1] = "standby"
              /\ s_log[k] = "wol" => s_log[1] = "off"

C36_Witness ==
    /\ s_script = "power_on" /\ Exited
    /\ s_log = <<"off", "wol", "on">> /\ s_stdout = "success"

(***************************************************************************)
(* A further claim about get_tv_info.py (ScriptSpec).                      *)
(***************************************************************************)
\* an info run for a registered device
InfoRun == s_script = "get_tv_info" /\ s_args_ok /\ s_registered

\* C38: an info run without a stored token prints no_token and makes no
\* network access; with a token it probes the REST endpoint once, and a
\* failed probe gives tv_offline without a session; a session is created and
\* opened only after the token check and the probe both passed.
C38_InfoChecksInOrder ==
    InfoRun =>
        /\ NoStoredToken =>
              /\ s_log = <<>> /\ s_sess = <<>> /\ s_opens = 0
              /\ Exited => s_stdout = "no_token"
        /\ (~NoStoredToken /\ s_pc # "main") => Len(s_log) = 1
        /\ (~NoStoredToken /\ s_log = <<"probe_failed">>) =>
              /\ s_sess = <<>> /\ s_opens = 0
              /\ Exited /\ s_stdout = "tv_offline"
        /\ (s_sess # <<>> \/ s_opens > 0) =>
              (~NoStoredToken /\ s_log = <<"probe_ok">>)

C38_Witness ==
    /\ InfoRun /\ Exited /\ s_record = "TOKEN"
    /\ s_log = <<"probe_failed">> /\ s_stdout = "tv_offline" /\ s_opens = 0

\* the acknowledgement frame was waited for
AckRead == q_ack.kind # "unread"

\* C32: in both raw queries, once the acknowledgement was waited for - and
\* already before the candidate events are sent - on_new_token was called
\* exactly once, with the ack's token, when the ack carries a non-empty one,
\* and not at all otherwise; after an unreadable ack the query still sends
\* its candidate events.
C32_AckTokenReachesCallback ==
    AckRead =>
        /\ q_cb = IF q_ack.kind = "dict" /\ Truthy(q_ack.token)
                  THEN <<q_ack.token>> ELSE <<>>
        /\ (q_ack.kind # "dict" /\ q_pc = "returned") => q_emitted

\* C33: in both raw queries every candidate event is sent, in the order of
\* the query's list and also when some send raised, before the first frame
\* is read; while the query listens, every frame read so far was examined:
\* the foreground query found nothing usable in any of them, and the
\* installed-app query's map holds what all of them add up to.
C33_AllCandidatesSentThenEveryFrameExamined ==
    /\ q_emitted => q_emit.sent = events_to_try(q_fn)
    /\ q_read > 0 => q_emitted
    /\ q_pc = "listen" =>
          IF q_fn = "current_input" THEN UsableRead = {}
          ELSE q_apps_map = AppsOfAll({}, FramesRead)

C33_Witness ==
    /\ q_pc = "listen" /\ q_fn = "available_apps"
    /\ q_emit.failed /\ Len(q_emit.sent) = 5
    /\ q_read = 2 /\ q_apps_map # {}

\* tokens.json as the query left it, and the same with no record for "other"
\* or for "d"
FilesSeen ==
    {q_store.file, [q_store.file EXCEPT !.other = NoRecord],
     [q_store.file EXCEPT !.d = NoRecord]}

\* C39: with this query as the only writer of tokens.json,
\* persist_token_update(d, t) sets the token of d's record to t and leaves
\* its paired_at and every other record as they were, and doing it a second
\* time changes nothing; the file after the query differs from the file
\* before it in d's token at most, and it was not written at all unless
\* on_new_token was called with a token other than the one the query
\* started with.
C39_PersistChangesOnlyTheToken ==
    /\ \A file \in FilesSeen, id \in {"d", "other"}, t \in {"OLD", "NEW"} :
          LET after == persist_token_update(file, id, t)
          IN  /\ after[id].token = t
              /\ after[id].paired_at = file[id].paired_at
              /\ \A j \in {"d", "other"} \ {id} : after[j] = file[j]
              /\ persist_token_update(after, id, t) = after
    /\ q_store.file.other = q_store.initial.other
    /\ q_store.file.d.paired_at = q_store.initial.d.paired_at
    /\ q_store.file.d.token = q_stored
    /\ q_store.writes = IF q_cb # <<>> /\ q_cb[1] # q_token THEN 1 ELSE 0
    /\ q_store.writes = 0 => q_store.file = q_store.initial

C39_Witness ==
    /\ q_store.writes = 1
    /\ q_store.initial.d = Record("OLD", "T0")
    /\ q_store.file.d = Record("NEW", "T0")
    /\ q_store.file.other = Record("OTHER", "T1")

\* the writer is a pairing whose open() or one of whose key sends raised
FailedPairing(w) ==
    /\ w_kind[w] = "save_token"
    /\ w_run[w].attempt \in {"open_raises", "volup_raises", "voldown_raises"}

\* C37: a pairing whose open() or verification key send raised prints
\* pair_failed and never calls save_token; as long as failed pairings are
\* the only processes that ran, tokens.json is the file it was, with every
\* record as before.
C37_FailedPairingLeavesStore ==
    /\ \A w \in Writers :
          FailedPairing(w) => (w_run[w].stdout = "pair_failed" /\ w_pc[w] = "skipped")
    /\ (\A w \in Writers : w_pc[w] = "start" \/ FailedPairing(w))
          => (f_tokens = "T" /\ f_tmp = "none" /\ TokensFile = Complete(f_initial))

C37_Witness ==
    \E w \in Writers :
        /\ FailedPairing(w) /\ w_run[w].attempt = "voldown_raises"
        /\ w_run[w].stdout = "pair_failed"
        /\ \A i \in Ids : f_initial[i] = "OLD"
        /\ \A v \in Writers \ {w} : FailedPairing(v)
        /\ TokensFile = Complete(f_initial)

=============================================================================
